---- MODULE Spec2Model ----
(***************************************************************************)
(* Decision bot: the Slack events handler (src/src/routes/slackEvents.ts), *)
(* its intent router and its workflows, with the in-memory map of pending  *)
(* deletions and the Notion decision store.                                *)
(*                                                                         *)
(* Every handler is an async function: it runs without interruption from   *)
(* one await to the next.  An action below is one such run: it starts when *)
(* the awaited call of the previous run returns (its result is the         *)
(* action's input) and ends where the next call is issued.  The last run   *)
(* of a handler posts one chat message; what follows that await reads and  *)
(* writes no shared state, so the outcome of the post is part of the run.  *)
(*                                                                         *)
(* Texts are sequences of one-character strings.  Record ids, titles,      *)
(* summaries and tags are opaque to the handlers: they are numbers here,   *)
(* 0 standing for undefined.                                               *)
(***************************************************************************)
EXTENDS Integers, Sequences, FiniteSets, TLC

\* ------------------------------------------------------------------ bounds
\* Events that can be in flight (received, not yet completely handled).
MaxInFlight == 2
\* Records in the decision store.
MaxRecords == 2
\* Mentions delivered to the endpoint in one behaviour.
MaxEvents == 3

\* --------------------------------------------------- String.prototype, as used
Whitespace == {" ", "\n"}

UpperCase == <<"A", "B", "C", "D", "E", "F", "G", "H", "I", "J", "K", "L", "M",
               "N", "O", "P", "Q", "R", "S", "T", "U", "V", "W", "X", "Y", "Z">>

LowerCase == <<"a", "b", "c", "d", "e", "f", "g", "h", "i", "j", "k", "l", "m",
               "n", "o", "p", "q", "r", "s", "t", "u", "v", "w", "x", "y", "z">>

\* s.indexOf(ch): the 0-based position of the first ch, -1 when there is none.
indexOf(s, ch) ==
    IF \E p \in 1..Len(s) : s[p] = ch
    THEN (CHOOSE p \in 1..Len(s) : s[p] = ch /\ \A q \in 1..(p - 1) : s[q] # ch) - 1
    ELSE -1

\* s.substring(start): from the 0-based start (clamped to the length) to the end.
substring(s, start) ==
    LET from == IF start < 0 THEN 0 ELSE IF start > Len(s) THEN Len(s) ELSE start
    IN  SubSeq(s, from + 1, Len(s))

\* s.trim()
trim(s) ==
    LET kept == {p \in 1..Len(s) : s[p] \notin Whitespace}
    IN  IF kept = {} THEN <<>>
        ELSE SubSeq(s, CHOOSE p \in kept : \A q \in kept : p <= q,
                       CHOOSE p \in kept : \A q \in kept : q <= p)

\* s.toLowerCase()
toLowerCase(s) ==
    [p \in 1..Len(s) |->
        IF \E l \in 1..26 : UpperCase[l] = s[p]
        THEN LowerCase[CHOOSE l \in 1..26 : UpperCase[l] = s[p]]
        ELSE s[p]]

\* s.includes(token)
includes(s, token) ==
    \E p \in 1..(Len(s) - Len(token) + 1) : SubSeq(s, p, p + Len(token) - 1) = token

\* s.slice(0, end)
slice(s, end) == SubSeq(s, 1, IF end < Len(s) THEN end ELSE Len(s))

\* s.replace(/\s+/g, " "): every run of whitespace becomes one space.
collapse(s) ==
    LET kept == SelectSeq([p \in 1..Len(s) |-> p],
                          LAMBDA p : s[p] \notin Whitespace
                                     \/ p = 1 \/ s[p - 1] \notin Whitespace)
    IN  [q \in 1..Len(kept) |-> IF s[kept[q]] \in Whitespace THEN " " ELSE s[kept[q]]]

\* `.slice(0, 80)` of a title; `s.length > 180` and `s.slice(0, 177) + "..."`
\* of a fallback summary.
TitleLimit == 80
SummaryLimit == 180
Ellipsis == <<".", ".", ".">>

\* text.split(/\n|\./): the characters that end a line or a sentence.
Separators == {"\n", "."}

\* `first` of extractTitleFallback: the first piece of the text, split at
\* line ends and full stops and trimmed, that is not empty, or "Decision".
first(text) ==
    LET content == {p \in 1..Len(text) : text[p] \notin Whitespace \cup Separators}
    IN  IF content = {} THEN <<"D", "e", "c", "i", "s", "i", "o", "n">>
        ELSE LET from == CHOOSE p \in content : \A q \in content : p <= q
                 ends == {q \in from..Len(text) : text[q] \in Separators} \cup {Len(text) + 1}
                 to == CHOOSE q \in ends : \A r \in ends : q <= r
             IN  trim(SubSeq(text, from, to - 1))

\* extractTitleFallback(text): the first piece of the text, split at line
\* ends and full stops and trimmed, that is not empty, or "Decision"; cut to
\* 80 characters.  (The first character that is neither whitespace nor a
\* separator begins that piece.)
extractTitleFallback(text) == slice(first(text), TitleLimit)

\* A faulty extractSummaryFallback: the whitespace is not collapsed.  C25
\* does not hold of it.
extractSummaryFallback_raw(text) ==
    LET s == trim(text)
    IN  IF Len(s) > SummaryLimit THEN slice(s, SummaryLimit - Len(Ellipsis)) \o Ellipsis
        ELSE IF s = <<>> THEN <<"S", "u", "m", "m", "a", "r", "y", " ", "T", "B", "D">>
        ELSE s

\* extractSummaryFallback(text): the text with its whitespace collapsed and
\* trimmed, cut to 177 characters and "..." when longer than 180, or
\* "Summary TBD".
extractSummaryFallback(text) ==
    LET s == trim(collapse(text))
    IN  IF Len(s) > SummaryLimit THEN slice(s, SummaryLimit - Len(Ellipsis)) \o Ellipsis
        ELSE IF s = <<>> THEN <<"S", "u", "m", "m", "a", "r", "y", " ", "T", "B", "D">>
        ELSE s

\* n times the character ch.
Repeat(ch, n) == [p \in 1..n |-> ch]

\* The texts of a thread: a first piece of 0, 79 or 81 characters and a
\* second one of 0 or 100, after nothing, whitespace or a full stop and
\* separated by a full stop, two spaces or a line end.
ThreadTexts ==
    {pre \o Repeat("a", n) \o sep \o Repeat("b", m) :
        pre \in {<<>>, <<"\n", " ">>, <<".">>},
        n \in {0, TitleLimit - 1, TitleLimit + 1},
        sep \in {<<".">>, <<" ", " ">>, <<"\n">>},
        m \in {0, SummaryLimit - TitleLimit}}

\* ------------------------------------------------------------------- data
\* Slack channel ids and thread timestamps of the inbound events.
Channels == {"C1"}
Threads == {"T1", "T2"}

\* evt.text of an app_mention: the bot mention and what the user typed.
Mention == <<"<", "@", "B", ">">>
TextYes == Mention \o <<" ", "y", "e", "s">>
TextYesUpper == Mention \o <<" ", "Y", "E", "S">>
TextNo == Mention \o <<" ", "n", "o">>
TextOther == Mention \o <<" ", "h", "i">>
TextDeleteIt == Mention \o <<" ", "d", "e", "l", "e", "t", "e", " ", "i", "t">>
TextRemoveIt == Mention \o <<" ", "r", "e", "m", "o", "v", "e", " ", "i", "t">>
EventTexts == {TextYes, TextYesUpper, TextNo, TextOther, TextDeleteIt, TextRemoveIt}

\* Replies with a pending deletion in mind: `no, do not delete it` after the
\* mention, and `yes` with the mention after it.
TextNoDoNotDelete == Mention \o <<" ", "n", "o", ",", " ", "d", "o", " ", "n",
    "o", "t", " ", "d", "e", "l", "e", "t", "e", " ", "i", "t">>
TextYesMentionLast == <<"y", "e", "s", " ">> \o Mention
ReplyTexts == {TextNoDoNotDelete, TextYesMentionLast}

\* enum ActionType
ActionType == {"create", "update", "read", "delete", "summary", "none_applicable"}

\* A page of the Notion database as getAllDecisions returns it.  The n-th
\* record ever stored has id 100 + n, title 200 + n, and so on.
Record(n) == [id |-> 100 + n, title |-> 200 + n, summary |-> 300 + n, tag |-> 400 + n]

\* existingDecisions[index] of an index outside the array: undefined.
NoRecord == [id |-> 0, title |-> 0, summary |-> 0, tag |-> 0]

\* interface PendingDeletion.  Date.now() is written to `timestamp` and never
\* read: in its place the entry records, for the properties, the number of
\* the event whose request stored it.
PendingDeletion(record, channel, thread_ts, openedBy) ==
    [decision_id |-> record.id, title |-> record.title, summary |-> record.summary,
     channel |-> channel, thread_ts |-> thread_ts, openedBy |-> openedBy]

\* pendingDeletions.get(key) of a key the map does not hold: undefined.
NoEntry ==
    [decision_id |-> 0, title |-> 0, summary |-> 0, channel |-> "", thread_ts |-> "",
     openedBy |-> 0]

\* The answer of a capability gives no confidence (`confidence !== undefined`
\* in extractDecisionFromThread).
NoConfidence == -1

\* The capability got no answer it can read: the request failed, the answer
\* is empty or it is not JSON.
NoAnswer == -2

\* A request to /slack/events: what its body is (the URL verification of
\* Slack, an app_mention event or an event of another type), its
\* x-slack-request-timestamp (within five minutes, older, or absent) and its
\* x-slack-signature (the one of the body, another one of the same length,
\* one of another length, or absent).
Requests ==
    [kind : {"url_verification", "app_mention", "message"},
     timestamp : {"fresh", "stale", "missing"},
     signature : {"valid", "wrong", "short", "missing"}]

NoRequest == [kind |-> "", timestamp |-> "", signature |-> ""]

\* SlackVerification.verify(req), with a signing secret configured: false
\* without the two headers and for an old timestamp; then
\* crypto.timingSafeEqual, which compares two buffers of the same length and
\* throws when the lengths differ.
verify(request) ==
    IF request.timestamp = "missing" \/ request.signature = "missing" THEN "false"
    ELSE IF request.timestamp = "stale" THEN "false"
    ELSE IF request.signature = "short" THEN "throws"
    ELSE IF request.signature = "valid" THEN "true"
    ELSE "false"

\* What handleEvents answers to a request: the challenge, `401 bad sig`,
\* the acknowledgment `200`, or nothing when verify throws.
response(request) ==
    IF request.kind = "url_verification" THEN "challenge"
    ELSE IF verify(request) = "throws" THEN ""
    ELSE IF verify(request) = "false" THEN "401 bad sig"
    ELSE "200"

\* `${channel}-${thread_ts}`
pendingDeletionKey(channel, thread_ts) == <<channel, thread_ts>>

Keys == {pendingDeletionKey(c, t) : c \in Channels, t \in Threads}

\* ------------------------------------------------ the confirmation reply
\* eventText.substring(eventText.indexOf(">") + 2).trim().toLowerCase()
messageText(eventText) ==
    toLowerCase(trim(substring(eventText, indexOf(eventText, ">") + 2)))

TokenYes == <<"y", "e", "s">>
TokenConfirm == <<"c", "o", "n", "f", "i", "r", "m">>
TokenDelete == <<"d", "e", "l", "e", "t", "e">>
TokenNo == <<"n", "o">>
TokenCancel == <<"c", "a", "n", "c", "e", "l">>
TokenAbort == <<"a", "b", "o", "r", "t">>

\* A faulty isConfirmation, the two tests of the reply mixed up: the cancel
\* tokens confirm too.  C1 does not hold of it.
isConfirmation_orCancellation(text) ==
    \/ includes(text, TokenYes) \/ includes(text, TokenConfirm) \/ includes(text, TokenDelete)
    \/ includes(text, TokenNo) \/ includes(text, TokenCancel) \/ includes(text, TokenAbort)

\* The first test of the reply: the user confirmed the deletion.
isConfirmation(text) ==
    includes(text, TokenYes) \/ includes(text, TokenConfirm) \/ includes(text, TokenDelete)

\* The second test of the reply: the user cancelled the deletion.
isCancellation(text) ==
    includes(text, TokenNo) \/ includes(text, TokenCancel) \/ includes(text, TokenAbort)

\* ------------------------------------------------------------ chat messages
\* A chat.postMessage call: the template literal of the source (named by its
\* opening words) and the values interpolated into it, in order.
Message(template, args) == [template |-> template, args |-> args]

\* `Are you sure you want to delete this decision? ... Reply with "yes" ...`
ConfirmationPrompt(record) ==
    Message("Are you sure you want to delete this decision?",
            <<record.title, record.summary, record.tag>>)

\* A faulty ReminderMessage: the confirmation prompt again, built from the
\* entry, which holds no tag.  The amended C5 does not hold of it.
ReminderMessage_prompt(pendingDeletion) ==
    Message("Are you sure you want to delete this decision?",
            <<pendingDeletion.title, pendingDeletion.summary, 0>>)

\* `You have a pending deletion for: ... Please reply with "yes" ...`
ReminderMessage(pendingDeletion) ==
    Message("You have a pending deletion for:", <<pendingDeletion.title>>)

\* `Decision deleted successfully! ...` or `Failed to delete decision: ...`
DeleteResultMessage(success, pendingDeletion) ==
    IF success
    THEN Message("Decision deleted successfully!",
                 <<pendingDeletion.title, pendingDeletion.summary>>)
    ELSE Message("Failed to delete decision:", <<>>)

\* `Decision deletion cancelled. The decision "..." was not deleted.`
CancelledMessage(pendingDeletion) ==
    Message("Decision deletion cancelled.", <<pendingDeletion.title>>)

\* `Multiple related decisions found. ...` with one bullet per returned title.
MultipleFoundMessage(related) ==
    Message("Multiple related decisions found.", [p \in 1..Len(related) |-> related[p].title])

\* `No decisions found in the database to delete.`
NoDecisionsMessage == Message("No decisions found in the database to delete.", <<>>)

\* `No related decisions found to delete. ...`
NoRelatedMessage == Message("No related decisions found to delete.", <<>>)

\* `Decision not found in database.`
NotFoundMessage == Message("Decision not found in database.", <<>>)

\* The catch of deleteDecision: `Failed to delete decision: ${error.message}`
DeleteErrorMessage == Message("Failed to delete decision: (caught)", <<>>)

\* `I analyzed your message but didn't detect any intent ...`
ClarificationMessage == Message("I analyzed your message but didn't detect any intent", <<>>)

\* A faulty apiCall: the error message of the catch is posted after the
\* message of the workflow whether Slack accepted it or not.  C11 does not
\* hold of it.
apiCall_finally(message, inTry, catchMessage, accepted, catchAccepted) ==
    IF inTry
    THEN <<[message |-> message, ok |-> accepted],
           [message |-> catchMessage, ok |-> catchAccepted]>>
    ELSE <<[message |-> message, ok |-> accepted]>>

\* slackService.apiCall("chat.postMessage", ...) of the last run of a handler:
\* the call is made; it throws when Slack does not answer ok (accepted is
\* FALSE).  Inside a try the catch posts its error message, which can throw
\* in its turn (catchAccepted is FALSE) and is then not caught by anything.
apiCall(message, inTry, catchMessage, accepted, catchAccepted) ==
    IF accepted THEN <<[message |-> message, ok |-> TRUE]>>
    ELSE IF inTry
         THEN <<[message |-> message, ok |-> FALSE],
                [message |-> catchMessage, ok |-> catchAccepted]>>
         ELSE <<[message |-> message, ok |-> FALSE]>>

\* How the handler ends after that post: it returns, or its promise rejects.
settled(inTry, accepted, catchAccepted) ==
    IF accepted \/ (inTry /\ catchAccepted) THEN "done" ELSE "rejected"

\* ------------------------------------------------------------ the store
StoreOps == {"getAllDecisions", "addDecision", "updateDecision", "deleteDecision"}

\* A call of a NotionService method or of a capability of llm.ts: the method,
\* the id it is given (0 when it takes none) and, for the record, the entry
\* the map held for the caller's key when the call was made.
Call(op, id, entry) == [op |-> op, id |-> id, entry |-> entry]

\* notionService.getAllDecisions(): the pages of the database, or [] when
\* the query throws.
getAllDecisions(pages, queryOk) == IF queryOk THEN pages ELSE <<>>

\* notionService.deleteDecision(id) -> ok: the page is gone from the
\* database when the call succeeds.
deleteDecisionPages(pages, id, success) ==
    IF success THEN SelectSeq(pages, LAMBDA r : r.id # id) ELSE pages

\* existingDecisions[index], index 0-based
elementAt(existingDecisions, index) ==
    IF index \in 0..(Len(existingDecisions) - 1)
    THEN existingDecisions[index + 1]
    ELSE NoRecord

\* One element of related_decisions of the Relatedness capability: the
\* 1-based position it names and the title and summary it gives.
RelatedDecision(existingDecisions, ordinal) ==
    LET r == elementAt(existingDecisions, ordinal - 1)
    IN  [id |-> ordinal,
         title |-> IF r = NoRecord THEN 299 ELSE r.title,
         summary |-> IF r = NoRecord THEN 399 ELSE r.summary]

\* findRelatedDecisions(threadText, existingDecisions).related_decisions: what
\* the model answers (any positions, also ones the list does not have), or []
\* when the list is empty or the call fails.
findRelatedDecisions(existingDecisions) ==
    IF existingDecisions = <<>> THEN {<<>>}
    ELSE LET ordinals == (-1)..(Len(existingDecisions) + 1)
         IN  {<<>>}
             \cup {<<RelatedDecision(existingDecisions, o)>> : o \in ordinals}
             \cup {<<RelatedDecision(existingDecisions, o[1]),
                     RelatedDecision(existingDecisions, o[2])>> :
                        o \in {q \in ordinals \X ordinals : q[1] < q[2]}}

\* ------------------------------------------------------------------ state
VARIABLES
    pendingDeletions,   \* SlackEventsHandler.pendingDeletions: key -> entry
    pages,              \* the Notion database: the sequence of its records
    nextPage,           \* the number of the next record the database creates
    events,             \* the number of mentions delivered so far
    task,               \* the events in flight: per slot, the handler's locals
    threadText,         \* the text of the thread, as the capabilities are given it
    last                \* the run made last, when it ended a handler: the task as
                        \* it ended, what it did to the map

vars == <<pendingDeletions, pages, nextPage, events, threadText, task, last>>

Tasks == 1..MaxInFlight

\* A slot no event occupies.
NoTask ==
    [pc |-> "idle", event |-> 0, request |-> NoRequest, response |-> "", action |-> "",
     channel |-> "", thread_ts |-> "", eventText |-> <<>>,
     actionType |-> "", confidence |-> NoConfidence, pendingDeletion |-> NoEntry,
     candidate |-> [title |-> 0, summary |-> 0, tag |-> 0],
     existingDecisions |-> <<>>,
     related |-> <<>>, relatedDecisionsForUpdate |-> <<>>,
     comparison |-> [similar |-> FALSE, similarity_score |-> 0, existing_decision_id |-> 0,
                     reason |-> ""],
     updateAnswer |-> [failed |-> TRUE, decision_id |-> 0, confidence |-> 0,
                       fields |-> <<0, 0, 0>>],
     updateAnalysis |-> [error |-> <<>>, decision_id |-> 0, updated_title |-> 0,
                         updated_summary |-> 0, updated_tag |-> 0],
     updateData |-> [title |-> 0, summary |-> 0, tag |-> 0,
                     slack_thread |-> 0, slack_channel |-> 0, date_timestamp |-> 0],
     calls |-> <<>>, posted |-> <<>>]

keyOf(t) == pendingDeletionKey(t.channel, t.thread_ts)

\* No run that ended a handler yet.
NoRun == [run |-> "", task |-> NoTask, entryBefore |-> NoEntry, mapWrite |-> "none"]

\* One run of task i, named after the action: t is the task after the run,
\* entry the map's entry for its key before the run, mapWrite what the run
\* did to the map ("set", "delete" or "none").  A run that ends the handler
\* frees the slot and is kept in `last`.
Ran(run, i, t, entry, mapWrite) ==
    /\ IF t.pc \in {"done", "rejected"}
       THEN /\ task' = [task EXCEPT ![i] = NoTask]
            /\ last' = [run |-> run, task |-> t, entryBefore |-> entry, mapWrite |-> mapWrite]
       ELSE /\ task' = [task EXCEPT ![i] = t]
            /\ last' = NoRun
    /\ UNCHANGED threadText

\* The process has started and has handled `handled` mentions; the thread
\* has one of the texts.
InitWith(handled, texts) ==
    /\ pendingDeletions = [k \in Keys |-> NoEntry]
    /\ \E n \in 0..MaxRecords :
          /\ pages = [p \in 1..n |-> Record(p)]
          /\ nextPage = n + 1
    /\ events = handled
    /\ threadText \in texts
    /\ task = [i \in Tasks |-> NoTask]
    /\ last = NoRun

Init == InitWith(0, {TextOther})

\* ------------------------------------------------------- handleEvents
\* A request arrives that handleEvents answers without going further: the
\* URL verification, a request that verify refuses or on which it throws,
\* and an event that processEvent returns from because it is no app_mention.
handleEvents_returned(i, request) ==
    /\ events < MaxEvents
    /\ task[i].pc = "idle"
    /\ \A j \in 1..(i - 1) : task[j].pc # "idle"
    /\ response(request) = "200" => request.kind # "app_mention"
    /\ events' = events + 1
    /\ Ran("handleEvents_returned", i,
           [NoTask EXCEPT !.pc = IF response(request) = "" THEN "rejected" ELSE "done",
                          !.event = events + 1,
                          !.request = request, !.response = response(request)],
           NoEntry, "none")
    /\ UNCHANGED <<pendingDeletions, pages, nextPage>>

\* A verified app_mention arrives: the endpoint acknowledges it and
\* processEvent runs up to the call of analyzeMessageIntent (the Slack calls
\* before it fetch the channel name and the thread text, which only the
\* capabilities read).
handleEvents(i, channel, thread_ts, eventText) ==
    /\ events < MaxEvents
    /\ task[i].pc = "idle"
    /\ \A j \in 1..(i - 1) : task[j].pc # "idle"
    /\ events' = events + 1
    /\ \E request \in Requests :
          /\ response(request) = "200"
          /\ request.kind = "app_mention"
          /\ Ran("handleEvents", i,
                 [NoTask EXCEPT !.pc = "analyzeMessageIntent", !.event = events + 1,
                                !.request = request, !.response = response(request),
                                !.channel = channel, !.thread_ts = thread_ts,
                                !.eventText = eventText],
                 pendingDeletions[pendingDeletionKey(channel, thread_ts)], "none")
    /\ UNCHANGED <<pendingDeletions, pages, nextPage>>

\* ------------------------------------------------------- processEvent
\* A faulty none_applicable case: the decisions are listed before the
\* clarification is posted.  C13 does not hold of it.
noneApplicable_listing(i, accepted) ==
    LET t == task[i] IN
    /\ t.pc = "analyzeMessageIntent"
    /\ Ran("noneApplicable", i, [t EXCEPT !.pc = settled(FALSE, accepted, FALSE),
                        !.actionType = "none_applicable",
                        !.calls = Append(@, Call("getAllDecisions", 0, pendingDeletions[keyOf(t)])),
                        !.posted = @ \o apiCall(ClarificationMessage, FALSE,
                                                ClarificationMessage, accepted, FALSE)],
           pendingDeletions[keyOf(t)], "none")
    /\ UNCHANGED <<pendingDeletions, pages, nextPage, events>>

\* A faulty none_applicable case: the map of pending deletions is emptied
\* when a mention is not understood.  C35 does not hold of it.
noneApplicable_forgetting(i, accepted) ==
    LET t == task[i] IN
    /\ t.pc = "analyzeMessageIntent"
    /\ pendingDeletions' = [k \in Keys |-> NoEntry]
    /\ Ran("noneApplicable", i, [t EXCEPT !.pc = settled(FALSE, accepted, FALSE),
                        !.actionType = "none_applicable",
                        !.posted = @ \o apiCall(ClarificationMessage, FALSE,
                                                ClarificationMessage, accepted, FALSE)],
           pendingDeletions[keyOf(t)], "none")
    /\ UNCHANGED <<pages, nextPage, events>>

\* What the classifier can answer that is no request for a workflow:
\* `none_applicable`, a label that is not of the enum, or nothing the
\* function can read (the call fails, the content is empty or no JSON).
Unreadable == "(no answer)"
OtherAnswers == {"none_applicable", "archive", Unreadable}

\* A faulty analyzeMessageIntent, without the validation: what the
\* classifier answered is returned as it is.  C37 does not hold of it.
analyzeMessageIntent_trusting(action) == action

\* analyzeMessageIntent(messageText), for the answer of the classifier: a
\* label of the enum is returned; anything else, and the failure of the
\* call, gives none_applicable.
analyzeMessageIntent(action) ==
    IF action \in ActionType THEN action ELSE "none_applicable"

\* analyzeMessageIntent returned none_applicable (also its answer to a failed
\* or invalid classification): the clarification is posted, outside any try.
noneApplicable(i, accepted) ==
    LET t == task[i] IN
    /\ t.pc = "analyzeMessageIntent"
    /\ \E action \in OtherAnswers :
          Ran("noneApplicable", i,
              [t EXCEPT !.pc = settled(FALSE, accepted, FALSE),
                        !.action = action,
                        !.actionType = analyzeMessageIntent(action),
                        !.posted = @ \o apiCall(ClarificationMessage, FALSE,
                                                ClarificationMessage, accepted, FALSE)],
              pendingDeletions[keyOf(t)], "none")
    /\ UNCHANGED <<pendingDeletions, pages, nextPage, events>>

\* ------------------------------------------------------- deleteDecision
\* analyzeMessageIntent returned delete; the key holds an entry and the reply
\* confirms: notionService.deleteDecision is called with the entry's id.
deleteDecision_confirm(i) ==
    LET t == task[i]
        entry == pendingDeletions[keyOf(t)]
    IN
    /\ t.pc = "analyzeMessageIntent"
    /\ entry # NoEntry
    /\ isConfirmation(messageText(t.eventText))
    /\ Ran("deleteDecision_confirm", i, [t EXCEPT !.pc = "deleteDecision",
                        !.actionType = "delete",
                        !.pendingDeletion = entry,
                        !.calls = Append(@, Call("deleteDecision", entry.decision_id, pendingDeletions[keyOf(t)]))],
           entry, "none")
    /\ UNCHANGED <<pendingDeletions, pages, nextPage, events>>

\* notionService.deleteDecision returned: the entry is removed from the map
\* and the result is posted.
deleteDecision_deleted(i, success, accepted, catchAccepted) ==
    LET t == task[i]
        key == keyOf(t)
    IN
    /\ t.pc = "deleteDecision"
    /\ pages' = deleteDecisionPages(pages, t.pendingDeletion.decision_id, success)
    /\ pendingDeletions' = [pendingDeletions EXCEPT ![key] = NoEntry]
    /\ Ran("deleteDecision_deleted", i, [t EXCEPT !.pc = settled(TRUE, accepted, catchAccepted),
                        !.posted = @ \o apiCall(DeleteResultMessage(success, t.pendingDeletion),
                                                TRUE, DeleteErrorMessage, accepted, catchAccepted)],
           pendingDeletions[key], "delete")
    /\ UNCHANGED <<nextPage, events>>

\* notionService.deleteDecision threw (its promise rejected): the catch of
\* deleteDecision posts its error message; the statement that removes the
\* entry from the map is skipped.
deleteDecision_threw(i, catchAccepted) ==
    LET t == task[i]
        key == keyOf(t)
    IN
    /\ t.pc = "deleteDecision"
    /\ Ran("deleteDecision_threw", i,
           [t EXCEPT !.pc = IF catchAccepted THEN "done" ELSE "rejected",
                     !.posted = @ \o <<[message |-> DeleteErrorMessage, ok |-> catchAccepted]>>],
           pendingDeletions[key], "none")
    /\ UNCHANGED <<pendingDeletions, pages, nextPage, events>>

\* analyzeMessageIntent returned delete; the key holds an entry and the reply
\* cancels: the entry is removed and the cancellation is posted.
deleteDecision_cancel(i, accepted, catchAccepted) ==
    LET t == task[i]
        key == keyOf(t)
        entry == pendingDeletions[key]
    IN
    /\ t.pc = "analyzeMessageIntent"
    /\ entry # NoEntry
    /\ ~isConfirmation(messageText(t.eventText))
    /\ isCancellation(messageText(t.eventText))
    /\ pendingDeletions' = [pendingDeletions EXCEPT ![key] = NoEntry]
    /\ Ran("deleteDecision_cancel", i, [t EXCEPT !.pc = settled(TRUE, accepted, catchAccepted),
                        !.actionType = "delete",
                        !.pendingDeletion = entry,
                        !.posted = @ \o apiCall(CancelledMessage(entry), TRUE,
                                                DeleteErrorMessage, accepted, catchAccepted)],
           entry, "delete")
    /\ UNCHANGED <<pages, nextPage, events>>

\* analyzeMessageIntent returned delete; the key holds an entry and the reply
\* neither confirms nor cancels: the user is reminded of the pending deletion.
deleteDecision_remind(i, accepted, catchAccepted) ==
    LET t == task[i]
        entry == pendingDeletions[keyOf(t)]
    IN
    /\ t.pc = "analyzeMessageIntent"
    /\ entry # NoEntry
    /\ ~isConfirmation(messageText(t.eventText))
    /\ ~isCancellation(messageText(t.eventText))
    /\ Ran("deleteDecision_remind", i, [t EXCEPT !.pc = settled(TRUE, accepted, catchAccepted),
                        !.actionType = "delete",
                        !.pendingDeletion = entry,
                        !.posted = @ \o apiCall(ReminderMessage(entry), TRUE,
                                                DeleteErrorMessage, accepted, catchAccepted)],
           entry, "none")
    /\ UNCHANGED <<pendingDeletions, pages, nextPage, events>>

\* analyzeMessageIntent returned delete and the key holds no entry: the
\* decisions are listed to find the one to delete.  eventText is not read
\* from here on.
deleteDecision_find(i) ==
    LET t == task[i] IN
    /\ t.pc = "analyzeMessageIntent"
    /\ pendingDeletions[keyOf(t)] = NoEntry
    /\ Ran("deleteDecision_find", i, [t EXCEPT !.pc = "deleteDecision:getAllDecisions",
                        !.actionType = "delete",
                        !.eventText = <<>>,
                        !.calls = Append(@, Call("getAllDecisions", 0, pendingDeletions[keyOf(t)]))],
           NoEntry, "none")
    /\ UNCHANGED <<pendingDeletions, pages, nextPage, events>>

\* getAllDecisions returned nothing: there is nothing to delete.
deleteDecision_empty(i, queryOk, accepted, catchAccepted) ==
    LET t == task[i] IN
    /\ t.pc = "deleteDecision:getAllDecisions"
    /\ getAllDecisions(pages, queryOk) = <<>>
    /\ Ran("deleteDecision_empty", i, [t EXCEPT !.pc = settled(TRUE, accepted, catchAccepted),
                        !.posted = @ \o apiCall(NoDecisionsMessage, TRUE,
                                                DeleteErrorMessage, accepted, catchAccepted)],
           pendingDeletions[keyOf(t)], "none")
    /\ UNCHANGED <<pendingDeletions, pages, nextPage, events>>

\* getAllDecisions returned the decisions: findRelatedDecisions is called.
deleteDecision_listed(i) ==
    LET t == task[i] IN
    /\ t.pc = "deleteDecision:getAllDecisions"
    /\ getAllDecisions(pages, TRUE) # <<>>
    /\ Ran("deleteDecision_listed", i, [t EXCEPT !.pc = "deleteDecision:findRelatedDecisions",
                        !.existingDecisions = getAllDecisions(pages, TRUE),
                        !.calls = Append(@, Call("findRelatedDecisions", 0, pendingDeletions[keyOf(t)]))],
           pendingDeletions[keyOf(t)], "none")
    /\ UNCHANGED <<pendingDeletions, pages, nextPage, events>>

\* What deleteDecision posts for the related decisions it was given: nothing
\* related, several related, one that the list does not hold, or the one
\* decision to delete.
candidateMessage(existingDecisions, related) ==
    IF Len(related) = 0 THEN NoRelatedMessage
    ELSE IF Len(related) > 1 THEN MultipleFoundMessage(related)
    ELSE IF elementAt(existingDecisions, related[1].id - 1) = NoRecord THEN NotFoundMessage
    ELSE ConfirmationPrompt(elementAt(existingDecisions, related[1].id - 1))

\* A faulty decisionToDelete: the decision the capability returned taken as
\* the record, its 1-based position as the id.  C28 does not hold of it.
decisionToDelete_returned(existingDecisions, related) ==
    IF Len(related) = 1 /\ elementAt(existingDecisions, related[1].id - 1) # NoRecord
    THEN [id |-> related[1].id, title |-> related[1].title,
          summary |-> related[1].summary, tag |-> 0]
    ELSE NoRecord

\* A faulty decisionToDelete: the 1-based position used as the index.  The
\* amended C7 does not hold of it.
decisionToDelete_unshifted(existingDecisions, related) ==
    IF Len(related) = 1 THEN elementAt(existingDecisions, related[1].id) ELSE NoRecord

\* The decision to delete: the single related decision, resolved in the list
\* read by this request; NoRecord when there is none.
decisionToDelete(existingDecisions, related) ==
    IF Len(related) = 1 THEN elementAt(existingDecisions, related[1].id - 1) ELSE NoRecord

\* findRelatedDecisions returned: without a single decision to delete the
\* request ends with a message; with one, the pending deletion is stored
\* under the key and the confirmation is asked for.
deleteDecision_related(i, related, accepted, catchAccepted) ==
    LET t == task[i]
        key == keyOf(t)
        existingDecision == decisionToDelete(t.existingDecisions, related)
    IN
    /\ t.pc = "deleteDecision:findRelatedDecisions"
    /\ related \in findRelatedDecisions(t.existingDecisions)
    /\ pendingDeletions' =
          IF existingDecision = NoRecord THEN pendingDeletions
          ELSE [pendingDeletions EXCEPT
                   ![key] = PendingDeletion(existingDecision, t.channel, t.thread_ts, t.event)]
    /\ Ran("deleteDecision_related", i, [t EXCEPT !.pc = settled(TRUE, accepted, catchAccepted),
                        !.related = related,
                        !.posted = @ \o apiCall(candidateMessage(t.existingDecisions, related),
                                                TRUE, DeleteErrorMessage, accepted, catchAccepted)],
           pendingDeletions[key], IF existingDecision = NoRecord THEN "none" ELSE "set")
    /\ UNCHANGED <<pages, nextPage, events>>

\* ----------------------------------------------------- createNewDecision
\* The candidate extractDecisionFromThread returns: title, summary and tag
\* are the capability's (or the fallback's) text, opaque here.
Extraction == [title |-> 250, summary |-> 350, tag |-> 450]

\* The candidate of the catch of extractDecisionFromThread:
\* extractTitleFallback(threadText), extractSummaryFallback(threadText) and
\* "general", opaque to the workflow.
Fallback == [title |-> 260, summary |-> 360, tag |-> 460]

\* The fields analyzeDecisionUpdate's answer carries: updated_title,
\* updated_summary and updated_tag as the model wrote them, opaque here.
Updated == [title |-> 270, summary |-> 370, tag |-> 470]

\* `confidence < 50` in extractDecisionFromThread
ExtractionThreshold == 50

\* The confidences the model answers with, around the threshold.
Confidences == {0, ExtractionThreshold - 1, ExtractionThreshold, NoConfidence, NoAnswer}

\* { error: "Could not confidently extract decision. ..." }
ExtractionError == [title |-> 0, summary |-> 0, tag |-> 0]

\* A faulty extractDecisionFromThread: the confidence of the answer is not
\* looked at.  C14 does not hold of it.
extractDecisionFromThread_unchecked(confidence, callOk) == Extraction

\* extractDecisionFromThread(threadText): the candidate, or the error when
\* the answer gives a confidence below the threshold; the fallback candidate
\* when the call fails (callOk is FALSE).
extractDecisionFromThread(confidence, callOk) ==
    IF ~callOk THEN Fallback
    ELSE IF confidence # NoConfidence /\ confidence < ExtractionThreshold THEN ExtractionError
    ELSE Extraction

\* `Failed to log decision to Notion database: ...`
ExtractionFailedMessage == Message("Failed to log decision to Notion database:", <<>>)

\* The confirmation of createNewDecision: `Decision ${action}: *${title}*`,
\* with ` (Similarity: ${score}%)` when comparison.similar, or
\* `Failed to ${action} decision: *${title}*`.
CreateResultMessage(notionSuccess, action, title, comparison) ==
    IF notionSuccess
    THEN Message(IF action = "updated" THEN "Decision updated:" ELSE "Decision added:",
                 IF comparison.similar THEN <<title, comparison.similarity_score>>
                 ELSE <<title>>)
    ELSE Message(IF action = "updated" THEN "Failed to updated decision:"
                 ELSE "Failed to added decision:", <<title>>)

\* "Only mark as similar if similarity_score >= 70.": the threshold the
\* prompt of compareDecisionWithExisting gives the model.
SimilarityThreshold == 70

\* An existing_decision_id that is no string: a number, as the model writes
\* when it answers with the position of the decision in the prompt's list.
NumberId == 1

\* A faulty compareDecisionWithExisting, without the return for an empty
\* list: the model is asked and answers as it likes.  C16 does not hold of it.
compareDecisionWithExisting_asking(existingDecisions) ==
    {[similar |-> FALSE, similarity_score |-> 0, existing_decision_id |-> 0,
      reason |-> "Error occurred during comparison"]}
    \cup {[similar |-> similar, similarity_score |-> score, existing_decision_id |-> id,
           reason |-> "(the reason the model gives)"] :
            similar \in BOOLEAN,
            score \in {SimilarityThreshold - 10, SimilarityThreshold + 20},
            id \in {existingDecisions[p].id : p \in 1..Len(existingDecisions)} \cup {0, 199, NumberId}}

\* compareDecisionWithExisting(newDecision, existingDecisions): not similar
\* without a call when the list is empty, and when the call fails or the
\* answer is malformed, each with its own `reason`; otherwise
\* what the model answers, of which only the types of `similar` and
\* `similarity_score` are validated: similar or not, a score below or above
\* the threshold, with or without the id of an existing decision, which can
\* be an id the list does not hold (199) or no string at all (NumberId).
compareDecisionWithExisting(existingDecisions) ==
    LET notSimilar(reason) == [similar |-> FALSE, similarity_score |-> 0,
                               existing_decision_id |-> 0, reason |-> reason]
    IN  IF existingDecisions = <<>>
        THEN {notSimilar("No existing decisions to compare against")}
        ELSE {notSimilar("Error occurred during comparison")}
             \cup {[similar |-> similar, similarity_score |-> score, existing_decision_id |-> id,
                    reason |-> "(the reason the model gives)"] :
                     similar \in BOOLEAN,
                     score \in {SimilarityThreshold - 10, SimilarityThreshold + 20},
                     id \in {existingDecisions[p].id : p \in 1..Len(existingDecisions)} \cup {0, 199, NumberId}}

\* notionService.addDecision(entry): a page is created when the call succeeds.
addDecisionPages(db, n, entry, success) ==
    IF success
    THEN Append(db, [id |-> 100 + n, title |-> entry.title, summary |-> entry.summary,
                     tag |-> entry.tag])
    ELSE db

\* notionService.updateDecision(pageId, entry): the properties the entry
\* names (a field that is 0 is not named) are written to the page.
updateDecisionPages(db, pageId, entry, success) ==
    IF success
    THEN [p \in 1..Len(db) |->
            IF db[p].id = pageId
            THEN [id |-> pageId,
                  title |-> IF entry.title # 0 THEN entry.title ELSE db[p].title,
                  summary |-> IF entry.summary # 0 THEN entry.summary ELSE db[p].summary,
                  tag |-> IF entry.tag # 0 THEN entry.tag ELSE db[p].tag]
            ELSE db[p]]
    ELSE db

\* analyzeMessageIntent returned create and the extraction reports low
\* confidence: the failure is posted (createNewDecision has no try).
createNewDecision_unsure(i, confidence, callOk, accepted) ==
    LET t == task[i] IN
    /\ t.pc = "analyzeMessageIntent"
    /\ callOk <=> confidence # NoAnswer
    /\ extractDecisionFromThread(confidence, callOk) = ExtractionError
    /\ Ran("createNewDecision_unsure", i,
           [t EXCEPT !.pc = settled(FALSE, accepted, FALSE),
                     !.actionType = "create",
                     !.eventText = <<>>,
                     !.confidence = confidence,
                     !.calls = Append(@, Call("extractDecisionFromThread", 0, pendingDeletions[keyOf(t)])),
                     !.posted = @ \o apiCall(ExtractionFailedMessage, FALSE,
                                             ExtractionFailedMessage, accepted, FALSE)],
           pendingDeletions[keyOf(t)], "none")
    /\ UNCHANGED <<pendingDeletions, pages, nextPage, events>>

\* analyzeMessageIntent returned create and the extraction gave a candidate:
\* the existing decisions are listed.  The confidence of the answer is kept
\* for the record until the next run.
createNewDecision_extracted(i, confidence, callOk) ==
    LET t == task[i] IN
    /\ t.pc = "analyzeMessageIntent"
    /\ callOk <=> confidence # NoAnswer
    /\ extractDecisionFromThread(confidence, callOk) # ExtractionError
    /\ Ran("createNewDecision_extracted", i,
           [t EXCEPT !.pc = "createNewDecision:getAllDecisions",
                     !.actionType = "create",
                     !.eventText = <<>>,
                     !.confidence = confidence,
                     !.candidate = extractDecisionFromThread(confidence, callOk),
                     !.calls = @ \o <<Call("extractDecisionFromThread", 0, pendingDeletions[keyOf(t)]),
                                      Call("getAllDecisions", 0, pendingDeletions[keyOf(t)])>>],
           pendingDeletions[keyOf(t)], "none")
    /\ UNCHANGED <<pendingDeletions, pages, nextPage, events>>

\* getAllDecisions and then compareDecisionWithExisting returned: a similar
\* decision with an id is updated, anything else is added.
createNewDecision_compared(i, queryOk, comparison) ==
    LET t == task[i]
        existingDecisions == getAllDecisions(pages, queryOk)
        update == comparison.similar /\ comparison.existing_decision_id # 0
    IN
    /\ t.pc = "createNewDecision:getAllDecisions"
    /\ comparison \in compareDecisionWithExisting(existingDecisions)
    /\ Ran("createNewDecision_compared", i,
           [t EXCEPT !.pc = "createNewDecision:store",
                     !.confidence = NoConfidence,
                     !.existingDecisions = existingDecisions,
                     !.comparison = comparison,
                     !.calls = @ \o (IF existingDecisions = <<>> THEN <<>>
                                     ELSE <<Call("compareDecisionWithExisting", 0, pendingDeletions[keyOf(t)])>>)
                                 \o (IF update
                                     THEN <<Call("updateDecision", comparison.existing_decision_id, pendingDeletions[keyOf(t)])>>
                                     ELSE <<Call("addDecision", 0, pendingDeletions[keyOf(t)])>>)],
           pendingDeletions[keyOf(t)], "none")
    /\ UNCHANGED <<pendingDeletions, pages, nextPage, events>>

\* updateDecision or addDecision returned: the outcome is posted.  A page
\* that does not exist cannot be updated; the database holds MaxRecords
\* records at most.
createNewDecision_stored(i, success, accepted) ==
    LET t == task[i]
        update == t.comparison.similar /\ t.comparison.existing_decision_id # 0
        exists == \E p \in 1..Len(pages) : pages[p].id = t.comparison.existing_decision_id
        done == success /\ (IF update THEN exists ELSE nextPage <= MaxRecords)
    IN
    /\ t.pc = "createNewDecision:store"
    /\ pages' = IF update
                THEN updateDecisionPages(pages, t.comparison.existing_decision_id, t.candidate, done)
                ELSE addDecisionPages(pages, nextPage, t.candidate, done)
    /\ nextPage' = IF ~update /\ done THEN nextPage + 1 ELSE nextPage
    /\ Ran("createNewDecision_stored", i,
           [t EXCEPT !.pc = settled(FALSE, accepted, FALSE),
                     !.posted = @ \o apiCall(CreateResultMessage(done,
                                                IF update THEN "updated" ELSE "added",
                                                t.candidate.title, t.comparison),
                                             FALSE, ExtractionFailedMessage, accepted, FALSE)],
           pendingDeletions[keyOf(t)], "none")
    /\ UNCHANGED <<pendingDeletions, events>>

\* --------------------------------------------------------- updateDecision
\* A faulty relatedDecisionsForUpdate, without the filter: the decisions
\* whose position the list does not hold stay, without id.  C18 does not
\* hold of it.
relatedDecisionsForUpdate_unfiltered(existingDecisions, related) ==
    LET resolved == [p \in 1..Len(related) |->
                        elementAt(existingDecisions, related[p].id - 1)]
    IN  [p \in 1..Len(related) |->
            [id |-> resolved[p].id, title |-> related[p].title,
             summary |-> related[p].summary, tag |-> resolved[p].tag]]

\* relatedDecisionsForUpdate: every related decision whose position the list
\* holds, with the id of the record at that position; the others are dropped.
relatedDecisionsForUpdate(existingDecisions, related) ==
    LET resolved == [p \in 1..Len(related) |->
                        elementAt(existingDecisions, related[p].id - 1)]
        kept == SelectSeq([p \in 1..Len(related) |-> p], LAMBDA p : resolved[p] # NoRecord)
    IN  [q \in 1..Len(kept) |->
            [id |-> resolved[kept[q]].id, title |-> related[kept[q]].title,
             summary |-> related[kept[q]].summary, tag |-> resolved[kept[q]].tag]]

\* `result.confidence < 60` in analyzeDecisionUpdate
UpdateThreshold == 60

\* A result of analyzeDecisionUpdate: the error (<<>> when there is none) or
\* the decision to update with the fields to change (0: not returned).
UpdateAnalysis(error, decision_id, fields) ==
    [error |-> error, decision_id |-> decision_id, updated_title |-> fields[1],
     updated_summary |-> fields[2], updated_tag |-> fields[3]]

\* What the model can answer to analyzeDecisionUpdate: no usable answer
\* (failed), or a decision_id, of the list given or not (199), a confidence
\* around the threshold and the fields to change.
updateAnswers(relatedDecisions) ==
    {[failed |-> TRUE, decision_id |-> 0, confidence |-> 0, fields |-> <<0, 0, 0>>]}
    \cup {[failed |-> FALSE, decision_id |-> id, confidence |-> confidence, fields |-> fields] :
            id \in {relatedDecisions[p].id : p \in 1..Len(relatedDecisions)} \cup {199},
            confidence \in {UpdateThreshold - 1, UpdateThreshold},
            fields \in {<<Updated.title, 0, 0>>,
                       <<0, Updated.summary, Updated.tag>>,
                       <<Updated.title, Updated.summary, Updated.tag>>}}

\* A faulty analyzeDecisionUpdate: the decision_id is not looked up in the
\* decisions given.  C19 does not hold of it.
analyzeDecisionUpdate_unvalidated(relatedDecisions, answer) ==
    IF relatedDecisions = <<>> THEN UpdateAnalysis(<<1>>, 0, <<0, 0, 0>>)
    ELSE IF answer.failed THEN UpdateAnalysis(<<4>>, 0, <<0, 0, 0>>)
    ELSE IF answer.confidence < UpdateThreshold
    THEN UpdateAnalysis(<<3, answer.confidence>>, 0, <<0, 0, 0>>)
    ELSE UpdateAnalysis(<<>>, answer.decision_id, answer.fields)

\* analyzeDecisionUpdate(threadText, relatedDecisions), for the answer of the
\* model.  The errors, with the value their text interpolates: <<1>> no
\* related decisions, <<2, id>> the id is not among them, <<3, confidence>>
\* low confidence, <<4>> the call failed or the answer is malformed.
analyzeDecisionUpdate(relatedDecisions, answer) ==
    IF relatedDecisions = <<>> THEN UpdateAnalysis(<<1>>, 0, <<0, 0, 0>>)
    ELSE IF answer.failed THEN UpdateAnalysis(<<4>>, 0, <<0, 0, 0>>)
    ELSE IF \A p \in 1..Len(relatedDecisions) : relatedDecisions[p].id # answer.decision_id
    THEN UpdateAnalysis(<<2, answer.decision_id>>, 0, <<0, 0, 0>>)
    ELSE IF answer.confidence < UpdateThreshold
    THEN UpdateAnalysis(<<3, answer.confidence>>, 0, <<0, 0, 0>>)
    ELSE UpdateAnalysis(<<>>, answer.decision_id, answer.fields)

\* The message that ends updateDecision before any update: nothing stored,
\* nothing related, no position resolved, or the analysis reports an error.
\* NoMessage when the workflow goes on to the update.
NoMessage == Message("", <<>>)

\* A faulty updateStopped: the error of the analysis is not looked at.  C20
\* does not hold of it.
updateStopped_ignoringError(existingDecisions, related, analysis) ==
    IF Len(existingDecisions) = 0
    THEN Message("No decisions found in the database to update.", <<>>)
    ELSE IF Len(related) = 0
    THEN Message("No related decisions found to update.", <<>>)
    ELSE IF Len(relatedDecisionsForUpdate(existingDecisions, related)) = 0
    THEN Message("Failed to map related decisions to valid Notion page IDs.", <<>>)
    ELSE NoMessage

updateStopped(existingDecisions, related, analysis) ==
    IF Len(existingDecisions) = 0
    THEN Message("No decisions found in the database to update.", <<>>)
    ELSE IF Len(related) = 0
    THEN Message("No related decisions found to update.", <<>>)
    ELSE IF Len(relatedDecisionsForUpdate(existingDecisions, related)) = 0
    THEN Message("Failed to map related decisions to valid Notion page IDs.", <<>>)
    ELSE IF analysis.error # <<>>
    THEN Message("Failed to analyze decision update:", analysis.error)
    ELSE NoMessage

\* The link to the thread, the name of the channel and the time of the
\* request, as processEvent and updateDecision compute them (opaque, never
\* empty).
threadUrl == 500
channelName == 600
dateTimestamp == 700

\* A faulty updateData: title, summary and tag are always sent, with the
\* text of the extraction where the analysis returned none.  C21 does not
\* hold of it.
updateData_whole(analysis) ==
    [title |-> IF analysis.updated_title # 0 THEN analysis.updated_title ELSE Extraction.title,
     summary |-> IF analysis.updated_summary # 0 THEN analysis.updated_summary
                 ELSE Extraction.summary,
     tag |-> IF analysis.updated_tag # 0 THEN analysis.updated_tag ELSE Extraction.tag,
     slack_thread |-> threadUrl, slack_channel |-> channelName,
     date_timestamp |-> dateTimestamp]

\* updateData: the thread, channel and date fields, and of title, summary
\* and tag those the analysis returned.
updateData(analysis) ==
    [title |-> analysis.updated_title, summary |-> analysis.updated_summary,
     tag |-> analysis.updated_tag,
     slack_thread |-> threadUrl, slack_channel |-> channelName,
     date_timestamp |-> dateTimestamp]

\* `Decision updated successfully!` or `Failed to update decision: ...`
UpdateResultMessage(success) ==
    IF success THEN Message("Decision updated successfully!", <<>>)
    ELSE Message("Failed to update decision:", <<>>)

\* The catch of updateDecision
UpdateErrorMessage == Message("Failed to update decision: (caught)", <<>>)

\* analyzeMessageIntent returned update: the decisions are listed.
updateDecision_find(i) ==
    LET t == task[i] IN
    /\ t.pc = "analyzeMessageIntent"
    /\ Ran("updateDecision_find", i,
           [t EXCEPT !.pc = "updateDecision:getAllDecisions",
                     !.actionType = "update",
                     !.eventText = <<>>,
                     !.calls = Append(@, Call("getAllDecisions", 0, pendingDeletions[keyOf(t)]))],
           pendingDeletions[keyOf(t)], "none")
    /\ UNCHANGED <<pendingDeletions, pages, nextPage, events>>

\* The capabilities updateDecision called for this list and these answers.
updateCapabilityCalls(existingDecisions, related, entry) ==
    (IF Len(existingDecisions) = 0 THEN <<>> ELSE <<Call("findRelatedDecisions", 0, entry)>>)
    \o (IF Len(relatedDecisionsForUpdate(existingDecisions, related)) = 0 THEN <<>>
        ELSE <<Call("analyzeDecisionUpdate", 0, entry)>>)

\* The locals of updateDecision once the list, the related decisions and the
\* answer to analyzeDecisionUpdate are there; the analysis is made only of
\* decisions that were mapped.  The answer of the model is kept for the
\* record.
updateLocals(t, existingDecisions, related, answer) ==
    LET mapped == relatedDecisionsForUpdate(existingDecisions, related) IN
    [t EXCEPT !.existingDecisions = existingDecisions,
              !.related = related,
              !.relatedDecisionsForUpdate = mapped,
              !.updateAnswer = IF Len(mapped) = 0 THEN @ ELSE answer,
              !.updateAnalysis = IF Len(mapped) = 0 THEN @
                                 ELSE analyzeDecisionUpdate(mapped, answer),
              !.calls = @ \o updateCapabilityCalls(existingDecisions, related,
                                                   pendingDeletions[keyOf(t)])]

\* getAllDecisions, findRelatedDecisions and analyzeDecisionUpdate returned
\* and the workflow stops with a message.
updateDecision_stopped(i, queryOk, related, answer, accepted, catchAccepted) ==
    LET t == task[i]
        existingDecisions == getAllDecisions(pages, queryOk)
        u == updateLocals(t, existingDecisions, related, answer)
        message == updateStopped(existingDecisions, related, u.updateAnalysis)
    IN
    /\ t.pc = "updateDecision:getAllDecisions"
    /\ related \in findRelatedDecisions(existingDecisions)
    /\ answer \in updateAnswers(relatedDecisionsForUpdate(existingDecisions, related))
    /\ message # NoMessage
    /\ Ran("updateDecision_stopped", i,
           [u EXCEPT !.pc = settled(TRUE, accepted, catchAccepted),
                     !.posted = @ \o apiCall(message, TRUE, UpdateErrorMessage,
                                             accepted, catchAccepted)],
           pendingDeletions[keyOf(t)], "none")
    /\ UNCHANGED <<pendingDeletions, pages, nextPage, events>>

\* They returned a decision to update: notionService.updateDecision is
\* called with its id and the update data.
updateDecision_resolved(i, related, answer) ==
    LET t == task[i]
        existingDecisions == getAllDecisions(pages, TRUE)
        u == updateLocals(t, existingDecisions, related, answer)
    IN
    /\ t.pc = "updateDecision:getAllDecisions"
    /\ related \in findRelatedDecisions(existingDecisions)
    /\ answer \in updateAnswers(relatedDecisionsForUpdate(existingDecisions, related))
    /\ updateStopped(existingDecisions, related, u.updateAnalysis) = NoMessage
    /\ Ran("updateDecision_resolved", i,
           [u EXCEPT !.pc = "updateDecision:updateDecision",
                     !.updateData = updateData(u.updateAnalysis),
                     !.calls = Append(@, Call("updateDecision", u.updateAnalysis.decision_id,
                                              pendingDeletions[keyOf(t)]))],
           pendingDeletions[keyOf(t)], "none")
    /\ UNCHANGED <<pendingDeletions, pages, nextPage, events>>

\* notionService.updateDecision returned: the outcome is posted.
updateDecision_updated(i, success, accepted, catchAccepted) ==
    LET t == task[i]
        exists == \E p \in 1..Len(pages) : pages[p].id = t.updateAnalysis.decision_id
    IN
    /\ t.pc = "updateDecision:updateDecision"
    /\ pages' = updateDecisionPages(pages, t.updateAnalysis.decision_id,
                                    t.updateData, success /\ exists)
    /\ Ran("updateDecision_updated", i,
           [t EXCEPT !.pc = settled(TRUE, accepted, catchAccepted),
                     !.posted = @ \o apiCall(UpdateResultMessage(success /\ exists), TRUE,
                                             UpdateErrorMessage, accepted, catchAccepted)],
           pendingDeletions[keyOf(t)], "none")
    /\ UNCHANGED <<pendingDeletions, nextPage, events>>

\* --------------------------------------------------- fetchRelatedDecisions
\* `Related Decisions:` with position, title and summary of each related
\* decision, then the link to the thread; the link alone when none is related.
RelatedMessage(related) ==
    Message(IF Len(related) > 0 THEN "Related Decisions: ... source" ELSE "source",
            [q \in 1..(3 * Len(related)) |->
                LET decision == related[((q - 1) \div 3) + 1] IN
                CASE q % 3 = 1 -> decision.id
                  [] q % 3 = 2 -> decision.title
                  [] OTHER -> decision.summary])

\* The catch of fetchRelatedDecisions
FetchErrorMessage == Message("Failed to fetch related decisions:", <<>>)

\* analyzeMessageIntent returned read: the decisions are listed.
fetchRelatedDecisions_find(i) ==
    LET t == task[i] IN
    /\ t.pc = "analyzeMessageIntent"
    /\ Ran("fetchRelatedDecisions_find", i,
           [t EXCEPT !.pc = "fetchRelatedDecisions:getAllDecisions",
                     !.actionType = "read",
                     !.eventText = <<>>,
                     !.calls = Append(@, Call("getAllDecisions", 0, pendingDeletions[keyOf(t)]))],
           pendingDeletions[keyOf(t)], "none")
    /\ UNCHANGED <<pendingDeletions, pages, nextPage, events>>

\* getAllDecisions and findRelatedDecisions returned: the related decisions
\* are posted.
fetchRelatedDecisions_related(i, queryOk, related, accepted, catchAccepted) ==
    LET t == task[i]
        existingDecisions == getAllDecisions(pages, queryOk)
    IN
    /\ t.pc = "fetchRelatedDecisions:getAllDecisions"
    /\ related \in findRelatedDecisions(existingDecisions)
    /\ Ran("fetchRelatedDecisions_related", i,
           [t EXCEPT !.pc = settled(TRUE, accepted, catchAccepted),
                     !.existingDecisions = existingDecisions,
                     !.related = related,
                     !.calls = @ \o (IF Len(existingDecisions) = 0 THEN <<>>
                                     ELSE <<Call("findRelatedDecisions", 0,
                                                 pendingDeletions[keyOf(t)])>>),
                     !.posted = @ \o apiCall(RelatedMessage(related), TRUE,
                                             FetchErrorMessage, accepted, catchAccepted)],
           pendingDeletions[keyOf(t)], "none")
    /\ UNCHANGED <<pendingDeletions, pages, nextPage, events>>

\* --------------------------------------------------- summarizeThreadResult
\* `Thread Summary ...`, or `Failed to generate thread summary: ...` with the
\* error of the capability (1: confidence below 30, 2: the call failed).
SummaryMessage(error) ==
    IF error = 0 THEN Message("Thread Summary", <<>>)
    ELSE Message("Failed to generate thread summary:", <<error>>)

\* The catch of summarizeThreadResult
SummaryErrorMessage == Message("Failed to summarize thread:", <<>>)

\* `result.confidence < 30` in summarizeThreadResult of llm.ts
SummaryThreshold == 30

\* The confidences the model answers a summary with, around the threshold.
SummaryConfidences == {SummaryThreshold - 1, SummaryThreshold}

\* A faulty summarizeThreadResult of llm.ts: the confidence of the answer is
\* not looked at.  C22 does not hold of it.
summaryResult_unchecked(confidence, callOk) ==
    IF ~callOk THEN 2 ELSE 0

\* summarizeThreadResult(threadText) of llm.ts, as the error it returns: 0
\* for a summary, 1 when the answer gives a confidence below the threshold,
\* 2 when the call fails or the answer is malformed.
summaryResult(confidence, callOk) ==
    IF ~callOk THEN 2
    ELSE IF confidence < SummaryThreshold THEN 1
    ELSE 0

\* analyzeMessageIntent returned summary and the Summarizer returned: the
\* summary, or its error, is posted.  A call that failed gave no confidence.
summarizeThreadResult(i, confidence, callOk, accepted, catchAccepted) ==
    LET t == task[i]
        error == summaryResult(confidence, callOk)
    IN
    /\ t.pc = "analyzeMessageIntent"
    /\ callOk <=> confidence # NoConfidence
    /\ Ran("summarizeThreadResult", i,
           [t EXCEPT !.pc = settled(TRUE, accepted, catchAccepted),
                     !.actionType = "summary",
                     !.eventText = <<>>,
                     !.confidence = confidence,
                     !.calls = Append(@, Call("summarizeThreadResult", 0, pendingDeletions[keyOf(t)])),
                     !.posted = @ \o apiCall(SummaryMessage(error), TRUE,
                                             SummaryErrorMessage, accepted, catchAccepted)],
           pendingDeletions[keyOf(t)], "none")
    /\ UNCHANGED <<pendingDeletions, pages, nextPage, events>>

\* ------------------------------------------------------------------ system
\* The runs of the router and of the delete workflow after the arrival of
\* the mention, for the slots S; Slack accepts a post or not as A allows.
DeleteSteps(S, A) ==
    \/ \E i \in S, a \in A : noneApplicable(i, a)
    \/ \E i \in S : deleteDecision_confirm(i)
    \/ \E i \in S, ok \in BOOLEAN, a \in A, ca \in A : deleteDecision_deleted(i, ok, a, ca)
    \/ \E i \in S, ca \in A : deleteDecision_threw(i, ca)
    \/ \E i \in S, a \in A, ca \in A : deleteDecision_cancel(i, a, ca)
    \/ \E i \in S, a \in A, ca \in A : deleteDecision_remind(i, a, ca)
    \/ \E i \in S : deleteDecision_find(i)
    \/ \E i \in S, q \in BOOLEAN, a \in A, ca \in A : deleteDecision_empty(i, q, a, ca)
    \/ \E i \in S : deleteDecision_listed(i)
    \/ \E i \in S, a \in A, ca \in A :
          \E r \in findRelatedDecisions(task[i].existingDecisions) : deleteDecision_related(i, r, a, ca)

\* The runs of the router and of the delete workflow, for the slots S and
\* mentions in the threads T; Slack accepts a post or not as A allows.
DeleteRuns(S, T, A) ==
    \/ \E i \in S, c \in Channels, th \in T, x \in EventTexts : handleEvents(i, c, th, x)
    \/ DeleteSteps(S, A)

\* The runs of the create workflow, for the slots S.
CreateRuns(S) ==
    \/ \E i \in S, c \in Confidences, ok \in BOOLEAN, a \in BOOLEAN :
          createNewDecision_unsure(i, c, ok, a)
    \/ \E i \in S, c \in Confidences, ok \in BOOLEAN : createNewDecision_extracted(i, c, ok)
    \/ \E i \in S, q \in BOOLEAN :
          \E c \in compareDecisionWithExisting(getAllDecisions(pages, q)) :
             createNewDecision_compared(i, q, c)
    \/ \E i \in S, ok \in BOOLEAN, a \in BOOLEAN : createNewDecision_stored(i, ok, a)

\* The runs of the other workflows, for the slots S.
OtherRuns(S) ==
    \/ CreateRuns(S)
    \/ \E i \in S : updateDecision_find(i)
    \/ \E i \in S, q \in BOOLEAN, a \in BOOLEAN, ca \in BOOLEAN :
          \E r \in findRelatedDecisions(getAllDecisions(pages, q)) :
             \E u \in updateAnswers(relatedDecisionsForUpdate(getAllDecisions(pages, q), r)) :
                updateDecision_stopped(i, q, r, u, a, ca)
    \/ \E i \in S :
          \E r \in findRelatedDecisions(pages) :
             \E u \in updateAnswers(relatedDecisionsForUpdate(pages, r)) :
                updateDecision_resolved(i, r, u)
    \/ \E i \in S, ok \in BOOLEAN, a \in BOOLEAN, ca \in BOOLEAN : updateDecision_updated(i, ok, a, ca)
    \/ \E i \in S : fetchRelatedDecisions_find(i)
    \/ \E i \in S, q \in BOOLEAN, a \in BOOLEAN, ca \in BOOLEAN :
          \E r \in findRelatedDecisions(getAllDecisions(pages, q)) :
             fetchRelatedDecisions_related(i, q, r, a, ca)
    \/ \E i \in S, c \in SummaryConfidences \cup {NoConfidence}, ok \in BOOLEAN,
             a \in BOOLEAN, ca \in BOOLEAN :
          summarizeThreadResult(i, c, ok, a, ca)

\* The mentions of one thread, handled one at a time, by every workflow.
Next == DeleteRuns({1}, {"T1"}, BOOLEAN) \/ OtherRuns({1})

Spec == Init /\ [][Next]_vars

\* Up to MaxInFlight events in flight together, their runs interleaved:
\* the router and the delete workflow, the one that uses the map, with a
\* Slack that accepts every post.
NextInFlight == DeleteRuns(Tasks, Threads, {TRUE})

SpecInFlight == Init /\ [][NextInFlight]_vars

\* One more mention, in a thread of any of the texts, handled by the create,
\* update, read and summary workflows: what these workflows make of the text.
InitText == InitWith(MaxEvents - 1, ThreadTexts)

NextText ==
    \/ \E c \in Channels : handleEvents(1, c, "T1", TextOther)
    \/ OtherRuns({1})

SpecText == InitText /\ [][NextText]_vars

\* Two more requests of any kind to /slack/events, one at a time, with the
\* router and the delete workflow behind it and a Slack that accepts every
\* post.
InitRequests == InitWith(MaxEvents - 2, {TextOther})

NextRequests ==
    \/ \E request \in Requests : handleEvents_returned(1, request)
    \/ DeleteRuns({1}, {"T1"}, {TRUE})

SpecRequests == InitRequests /\ [][NextRequests]_vars

\* Two more mentions in one thread, one at a time, among them the replies of
\* ReplyTexts, with the router and the delete workflow behind them and a
\* Slack that accepts every post.
InitReplies == InitWith(MaxEvents - 2, {TextOther})

NextReplies ==
    \/ \E c \in Channels, x \in ReplyTexts : handleEvents(1, c, "T1", x)
    \/ DeleteRuns({1}, {"T1"}, {TRUE})

SpecReplies == InitReplies /\ [][NextReplies]_vars

\* One mention of one thread, `delete it`, `remove it` or `no`, delivered
\* again and again with the same text (a redelivery of the webhook, or the
\* user repeating the mention), one delivery handled at a time.
InitRedelivery == InitWith(0, {TextDeleteIt, TextRemoveIt, TextNo})

NextRedelivery ==
    \/ \E c \in Channels : handleEvents(1, c, "T1", threadText)
    \/ DeleteSteps({1}, BOOLEAN)

SpecRedelivery == InitRedelivery /\ [][NextRedelivery]_vars

\* Two more mentions, in one thread or in two, handled one at a time by
\* every workflow, with a Slack that accepts the posts of the router and of
\* the delete workflow.
InitThreads == InitWith(MaxEvents - 2, {TextOther})

NextThreads == DeleteRuns({1}, Threads, {TRUE}) \/ OtherRuns({1})

SpecThreads == InitThreads /\ [][NextThreads]_vars

\* Two more mentions of one thread, in flight together, both handled by the
\* create workflow, their runs interleaved.
InitCreates == InitWith(MaxEvents - 2, {TextOther})

NextCreates ==
    \/ \E i \in Tasks, c \in Channels : handleEvents(i, c, "T1", TextOther)
    \/ CreateRuns(Tasks)

SpecCreates == InitCreates /\ [][NextCreates]_vars

\* -------------------------------------------------------------- properties
\* The calls of notionService.deleteDecision a handler has made.
deleteCalls(t) == SelectSeq(t.calls, LAMBDA c : c.op = "deleteDecision")

\* The calls of NotionService methods a handler has made.
storeCalls(t) == SelectSeq(t.calls, LAMBDA c : c.op \in StoreOps)

\* The handlers in flight and the one that ended with the last run.
Handlers == {task[i] : i \in Tasks} \cup {last.task}

AffirmativeTokens == {TokenYes, TokenConfirm, TokenDelete}
NegativeTokens == {TokenNo, TokenCancel, TokenAbort}

\* The mention's text contains one of the tokens, in any letter case.
hasToken(eventText, tokens) ==
    \E token \in tokens : includes(toLowerCase(eventText), token)

\* The last run ended the handling of a mention that arrived when its key
\* held an entry (under Spec, where nothing else runs in between).
EndedWithPending == last.run # "" /\ last.entryBefore # NoEntry

\* C1: notionService.deleteDecision is called only by a handler whose key
\* held an entry when the call was made, with that entry's decision_id, and
\* whose mention contains yes, confirm or delete; the request that stores an
\* entry makes no such call.
C1_DeleteOnlyOnConfirmation ==
    /\ \A t \in Handlers : \A c \in 1..Len(t.calls) :
          t.calls[c].op = "deleteDecision" =>
             /\ t.calls[c].entry # NoEntry
             /\ t.calls[c].entry.channel = t.channel
             /\ t.calls[c].entry.thread_ts = t.thread_ts
             /\ t.calls[c].id = t.calls[c].entry.decision_id
             /\ hasToken(t.eventText, AffirmativeTokens)
    /\ last.mapWrite = "set" => deleteCalls(last.task) = <<>>

\* A confirmation has called notionService.deleteDecision and awaits it.
C1_Witness ==
    \E i \in Tasks : task[i].pc = "deleteDecision" /\ Len(deleteCalls(task[i])) = 1

\* C2: the handling of a mention "yes" (any letter case) that arrived when
\* its key held an entry has called notionService.deleteDecision exactly
\* once, with the entry's decision_id, and leaves the key without entry.
C2_YesDeletesOnce ==
    (EndedWithPending /\ last.task.eventText \in {TextYes, TextYesUpper}) =>
       /\ Len(deleteCalls(last.task)) = 1
       /\ deleteCalls(last.task)[1].id = last.entryBefore.decision_id
       /\ pendingDeletions[keyOf(last.task)] = NoEntry

\* C3: the handling of a mention "no" that arrived when its key held an
\* entry has made no call of notionService.deleteDecision, has posted the
\* cancellation and leaves the key without entry.
C3_NoCancels ==
    (EndedWithPending /\ last.task.eventText = TextNo) =>
       /\ deleteCalls(last.task) = <<>>
       /\ \E p \in 1..Len(last.task.posted) :
             last.task.posted[p].message =
                Message("Decision deletion cancelled.", <<last.entryBefore.title>>)
       /\ pendingDeletions[keyOf(last.task)] = NoEntry

\* C4: the run that handles a classified mention with neither an affirmative
\* nor a negative token, whose key holds an entry, leaves the entry as it is
\* and calls no NotionService method.
C4_OtherTextKeepsEntry ==
    [][\A i \in Tasks :
          (/\ task[i].pc = "analyzeMessageIntent"
           /\ task'[i] # task[i]
           /\ pendingDeletions[keyOf(task[i])] # NoEntry
           /\ ~hasToken(task[i].eventText, AffirmativeTokens \cup NegativeTokens))
          => /\ pendingDeletions'[keyOf(task[i])] = pendingDeletions[keyOf(task[i])]
             /\ storeCalls(task'[i]) = <<>>
             /\ storeCalls(last'.task) = <<>>]_vars

\* The delete workflow has answered a mention with neither an affirmative
\* nor a negative token that arrived when its key held an entry.
Reminded ==
    /\ EndedWithPending
    /\ last.task.actionType = "delete"
    /\ ~hasToken(last.task.eventText, AffirmativeTokens \cup NegativeTokens)

C6_PendingMentionIsConfirmation ==
    EndedWithPending =>
       \E p \in 1..Len(last.task.posted) :
          last.task.posted[p].message \in
             {Message("Decision deleted successfully!",
                      <<last.entryBefore.title, last.entryBefore.summary>>),
              Message("Failed to delete decision:", <<>>),
              Message("Decision deletion cancelled.", <<last.entryBefore.title>>),
              Message("You have a pending deletion for:", <<last.entryBefore.title>>)}

\* The last run ended a delete request that found no entry under its key
\* (under Spec: the key was Idle when the mention arrived).
EndedFromIdle ==
    /\ last.run # ""
    /\ last.task.actionType = "delete"
    /\ last.entryBefore = NoEntry
    /\ last.task.pendingDeletion = NoEntry

\* What C7 says of no match and of several matches.
C7_NoneOrSeveral ==
    LET t == last.task
        m == t.posted[1].message
    IN
    /\ Len(t.related) = 0 =>
          /\ m \in {Message("No decisions found in the database to delete.", <<>>),
                    Message("No related decisions found to delete.", <<>>)}
          /\ pendingDeletions[keyOf(t)] = NoEntry
    /\ Len(t.related) > 1 =>
          /\ m = Message("Multiple related decisions found.",
                         [p \in 1..Len(t.related) |-> t.related[p].title])
          /\ pendingDeletions[keyOf(t)] = NoEntry

\* C7, as the specification states it: with no match the request answers
\* that nothing was found and the key stays Idle; with several it lists
\* their titles and the key stays Idle; with exactly one it stores an entry
\* under the key and posts the confirmation prompt.
C7_FromIdle ==
    EndedFromIdle =>
       /\ C7_NoneOrSeveral
       /\ Len(last.task.related) = 1 =>
             /\ pendingDeletions[keyOf(last.task)] # NoEntry
             /\ last.task.posted[1].message.template =
                   "Are you sure you want to delete this decision?"

\* C7, amended: with exactly one match whose position is a position of the
\* list this request read, the entry stored is that record's and the prompt
\* shows its title, summary and tag; with one whose position the list does
\* not hold, the request answers that the decision was not found and the
\* key stays Idle.
C7_FromIdleResolved ==
    EndedFromIdle =>
       LET t == last.task
           m == t.posted[1].message
       IN
       /\ C7_NoneOrSeveral
       /\ (Len(t.related) = 1 /\ t.related[1].id \in 1..Len(t.existingDecisions)) =>
             LET r == t.existingDecisions[t.related[1].id] IN
             /\ pendingDeletions[keyOf(t)] =
                   [decision_id |-> r.id, title |-> r.title, summary |-> r.summary,
                    channel |-> t.channel, thread_ts |-> t.thread_ts, openedBy |-> t.event]
             /\ m = Message("Are you sure you want to delete this decision?",
                            <<r.title, r.summary, r.tag>>)
       /\ (Len(t.related) = 1 /\ t.related[1].id \notin 1..Len(t.existingDecisions)) =>
             /\ m = Message("Decision not found in database.", <<>>)
             /\ pendingDeletions[keyOf(t)] = NoEntry

\* A delete request from Idle found exactly one match and stored its entry.
C7_Witness ==
    /\ EndedFromIdle
    /\ Len(last.task.related) = 1
    /\ pendingDeletions[keyOf(last.task)] # NoEntry
    /\ pendingDeletions[keyOf(last.task)].openedBy = last.task.event

\* C8: when the delete request of the mention delivered last ends its search,
\* no later request and no reply having come, its key holds an entry if and
\* only if it found exactly one decision to delete.
C8_EntryIffLatestFoundOne ==
    (/\ last.run # ""
     /\ last.task.actionType = "delete"
     /\ last.task.pendingDeletion = NoEntry
     /\ last.task.event = events) =>
       (pendingDeletions[keyOf(last.task)] # NoEntry
          <=> decisionToDelete(last.task.existingDecisions, last.task.related) # NoRecord)

\* C9: no run replaces the entry of a key by another entry.
C9_EntryNeverReplaced ==
    [][\A k \in Keys :
          (pendingDeletions[k] # NoEntry /\ pendingDeletions'[k] # NoEntry)
          => pendingDeletions'[k] = pendingDeletions[k]]_vars

\* C10: no two handlers in flight have both called
\* notionService.deleteDecision for the same entry.
C10_OneDeletePerEntry ==
    \A i, j \in Tasks :
       (i # j /\ deleteCalls(task[i]) # <<>> /\ deleteCalls(task[j]) # <<>>)
       => deleteCalls(task[i])[1].entry # deleteCalls(task[j])[1].entry

\* The calls a handler has made that change the database.
mutationCalls(t) ==
    SelectSeq(t.calls, LAMBDA c : c.op \in {"addDecision", "updateDecision", "deleteDecision"})

\* The runs that end each case of the switch of processEvent, and the
\* capabilities and store methods the workflow of that case calls.
WorkflowRuns ==
    [a \in ActionType |->
       CASE a = "create" -> {"createNewDecision_unsure", "createNewDecision_stored"}
         [] a = "update" -> {"updateDecision_stopped", "updateDecision_updated"}
         [] a = "read" -> {"fetchRelatedDecisions_related"}
         [] a = "delete" -> {"deleteDecision_deleted", "deleteDecision_threw",
                             "deleteDecision_cancel",
                             "deleteDecision_remind", "deleteDecision_empty",
                             "deleteDecision_related"}
         [] a = "summary" -> {"summarizeThreadResult"}
         [] a = "none_applicable" -> {"noneApplicable"}]

WorkflowCalls ==
    [a \in ActionType |->
       CASE a = "create" -> {"extractDecisionFromThread", "getAllDecisions",
                             "compareDecisionWithExisting", "addDecision", "updateDecision"}
         [] a = "update" -> {"getAllDecisions", "findRelatedDecisions",
                             "analyzeDecisionUpdate", "updateDecision"}
         [] a = "read" -> {"getAllDecisions", "findRelatedDecisions"}
         [] a = "delete" -> {"getAllDecisions", "findRelatedDecisions", "deleteDecision"}
         [] a = "summary" -> {"summarizeThreadResult"}
         [] a = "none_applicable" -> {}]

\* The posts of a handler that Slack accepted.
acceptedPosts(t) == SelectSeq(t.posted, LAMBDA m : m.ok)

\* C11: the handling of a mention, once ended, went through one case of the
\* switch only (its runs and its calls are those of the workflow of its
\* actionType), made at most one call that changes the database, and posted
\* one message: one post that Slack accepted, or, when Slack rejected the
\* post, at most the error message of the catch after it.
C11_OneWorkflowOneMutationOneMessage ==
    last.run # "" =>
       /\ last.task.actionType \in ActionType
       /\ last.run \in WorkflowRuns[last.task.actionType]
       /\ \A c \in 1..Len(last.task.calls) :
             last.task.calls[c].op \in WorkflowCalls[last.task.actionType]
       /\ Len(mutationCalls(last.task)) <= 1
       /\ Len(last.task.posted) \in {1, 2}
       /\ Len(acceptedPosts(last.task)) <= 1
       /\ last.task.posted[1].ok => Len(last.task.posted) = 1

\* A create has ended: one call of addDecision, one message, accepted.
C11_Witness ==
    /\ last.run = "createNewDecision_stored"
    /\ Len(mutationCalls(last.task)) = 1
    /\ Len(last.task.posted) = 1
    /\ last.task.posted[1].ok

\* C12: whatever fails, the handling of a mention ends without an exception
\* that nothing caught and with one message sent: when Slack rejects the post
\* of the workflow, the error message of its catch is posted after it, and
\* the handler returns whenever Slack accepts a message.
C12_NoFaultPropagates ==
    last.run # "" =>
       /\ ~last.task.posted[1].ok => Len(last.task.posted) = 2
       /\ Len(acceptedPosts(last.task)) = 1 => last.task.pc = "done"
       /\ last.task.pc = "rejected" => \A p \in 1..Len(last.task.posted) : ~last.task.posted[p].ok

\* C13: a mention classified none_applicable is answered with the static
\* clarification and nothing else: its handler runs no workflow, calls no
\* capability and no method of the store, and leaves the database and the
\* map as they were.
C13_NoneApplicableOnlyClarifies ==
    /\ [](\A t \in Handlers :
          t.actionType = "none_applicable" =>
             /\ t = last.task
             /\ last.run = "noneApplicable"
             /\ t.calls = <<>>
             /\ Len(t.posted) = 1
             /\ t.posted[1].message = ClarificationMessage
             /\ last.mapWrite = "none")
    /\ [][(last'.run = "noneApplicable") =>
             (pages' = pages /\ pendingDeletions' = pendingDeletions)]_vars

\* A mention was classified none_applicable and the clarification was posted.
C13_Witness ==
    /\ last.run = "noneApplicable"
    /\ last.task.posted = <<[message |-> ClarificationMessage, ok |-> TRUE]>>
    /\ Len(pages) > 0

\* C14: when the answer to extractDecisionFromThread gives a confidence
\* below 50, createNewDecision posts the failure message and ends: it has
\* called nothing but the extraction (no getAllDecisions, no
\* compareDecisionWithExisting, no addDecision, no updateDecision).
C14_LowConfidenceStoresNothing ==
    \A t \in Handlers :
       (t.actionType = "create" /\ t.confidence \in 0..(ExtractionThreshold - 1)) =>
          /\ t = last.task
          /\ last.run = "createNewDecision_unsure"
          /\ t.posted[1].message = ExtractionFailedMessage
          /\ Len(t.posted) = 1
          /\ Len(t.calls) = 1
          /\ t.calls[1].op = "extractDecisionFromThread"

\* An extraction of confidence 49 has ended a create with the failure
\* message, in a database that holds decisions.
C14_Witness ==
    /\ last.run = "createNewDecision_unsure"
    /\ last.task.confidence = ExtractionThreshold - 1
    /\ last.task.posted = <<[message |-> ExtractionFailedMessage, ok |-> TRUE]>>
    /\ Len(pages) > 0

\* The words of the confirmation of createNewDecision for each action.
CreateTemplates ==
    [action \in {"added", "updated"} |->
       {CreateResultMessage(success, action, Extraction.title, NoTask.comparison).template :
          success \in BOOLEAN}]

\* The id of the verdict is the id of a decision of the list compared with.
resolvable(t) ==
    \E p \in 1..Len(t.existingDecisions) :
       t.existingDecisions[p].id = t.comparison.existing_decision_id

\* C15: a create whose verdict has a similarity_score of 70 or more and the
\* id of a listed decision calls updateDecision with that id, never
\* addDecision, and reports "updated"; one whose verdict has a score below
\* 70 calls addDecision, never updateDecision, and reports "added".
C15_ScoreDecidesOutcome ==
    \A t \in Handlers :
       (t.actionType = "create" /\ mutationCalls(t) # <<>>) =>
          LET call == mutationCalls(t)[1]
              score == t.comparison.similarity_score
          IN  /\ (score >= SimilarityThreshold /\ resolvable(t)) =>
                    /\ call.op = "updateDecision"
                    /\ call.id = t.comparison.existing_decision_id
                    /\ t.posted # <<>> =>
                          t.posted[1].message.template \in CreateTemplates["updated"]
              /\ score < SimilarityThreshold =>
                    /\ call.op = "addDecision"
                    /\ t.posted # <<>> =>
                          t.posted[1].message.template \in CreateTemplates["added"]

\* The handler is in createNewDecision, past the comparison.
compared(t) ==
    /\ t.actionType = "create"
    /\ \/ t.pc = "createNewDecision:store"
       \/ t = last.task /\ last.run = "createNewDecision_stored"

\* C16: a create that is given an empty list by getAllDecisions does not ask
\* the model to compare, calls addDecision once and updateDecision never,
\* and its message says "added", without a similarity.
C16_EmptyListAdds ==
    \A t \in Handlers :
       (compared(t) /\ t.existingDecisions = <<>>) =>
          /\ \A c \in 1..Len(t.calls) : t.calls[c].op # "compareDecisionWithExisting"
          /\ Len(mutationCalls(t)) = 1
          /\ mutationCalls(t)[1].op = "addDecision"
          /\ t.posted # <<>> =>
                /\ t.posted[1].message.template \in CreateTemplates["added"]
                /\ t.posted[1].message.args = <<t.candidate.title>>

\* A create in an empty database has ended: the decision is stored and the
\* message says so.
C16_Witness ==
    /\ last.run = "createNewDecision_stored"
    /\ last.task.existingDecisions = <<>>
    /\ last.task.posted[1] = [message |-> Message("Decision added:", <<Extraction.title>>), ok |-> TRUE]
    /\ Len(pages) = 1

\* The message names the value among its interpolated values.
states(message, value) == \E a \in 1..Len(message.args) : message.args[a] = value

\* C17: the confirmation of a create that stored the decision says "added"
\* or "updated", names the title and the tag of the decision, and gives the
\* similarity score exactly when the decision was matched and updated.
C17_ConfirmationContent ==
    (last.run = "createNewDecision_stored"
     /\ last.task.posted[1].message.template \in {"Decision added:", "Decision updated:"}) =>
       LET t == last.task
           message == t.posted[1].message
       IN  /\ message.template = "Decision updated:" <=> mutationCalls(t)[1].op = "updateDecision"
           /\ states(message, t.candidate.title)
           /\ states(message, t.candidate.tag)
           /\ states(message, t.comparison.similarity_score)
                 <=> mutationCalls(t)[1].op = "updateDecision"

\* C17, the similarity alone: the confirmation of a decision that was added
\* gives no similarity score.
C17_AddedWithoutSimilarity ==
    (last.run = "createNewDecision_stored"
     /\ last.task.posted[1].message.template = "Decision added:") =>
       ~states(last.task.posted[1].message, last.task.comparison.similarity_score)

\* The handler is in updateDecision, past the mapping of the related
\* decisions to the decisions listed.
mapped(t) ==
    /\ t.actionType = "update"
    /\ t.related # <<>>
    /\ \/ t.pc = "updateDecision:updateDecision"
       \/ t = last.task /\ last.run \in WorkflowRuns["update"]

\* The related decisions whose position is one of the list, in their order.
resolving(t) ==
    SelectSeq(t.related, LAMBDA r : r.id \in 1..Len(t.existingDecisions))

\* C18: the decisions updateDecision gives to analyzeDecisionUpdate are the
\* related decisions whose position the list of this request holds, in their
\* order and with the id of the record at that position; those at position
\* 0, at a negative position or beyond the list are left out.  When none is
\* left the mapping failure is posted, and neither analyzeDecisionUpdate nor
\* a method that changes the database is called.
C18_UnresolvedOrdinalsDropped ==
    \A t \in Handlers :
       mapped(t) =>
          /\ Len(t.relatedDecisionsForUpdate) = Len(resolving(t))
          /\ \A q \in 1..Len(resolving(t)) :
                /\ t.relatedDecisionsForUpdate[q].id = t.existingDecisions[resolving(t)[q].id].id
                /\ t.relatedDecisionsForUpdate[q].title = resolving(t)[q].title
                /\ t.relatedDecisionsForUpdate[q].summary = resolving(t)[q].summary
          /\ resolving(t) = <<>> =>
                /\ t.posted[1].message
                      = Message("Failed to map related decisions to valid Notion page IDs.", <<>>)
                /\ \A c \in 1..Len(t.calls) : t.calls[c].op # "analyzeDecisionUpdate"
                /\ mutationCalls(t) = <<>>
          /\ resolving(t) # <<>> =>
                \E c \in 1..Len(t.calls) : t.calls[c].op = "analyzeDecisionUpdate"

\* Of two related decisions one is at a position beyond the list: the other
\* alone was given to analyzeDecisionUpdate and the update is under way.
C18_Witness ==
    \E i \in Tasks :
       /\ task[i].pc = "updateDecision:updateDecision"
       /\ Len(task[i].related) = 2
       /\ task[i].related[2].id > Len(task[i].existingDecisions)
       /\ Len(task[i].relatedDecisionsForUpdate) = 1

\* No related decision is at a position of the list: the mapping failure was
\* posted.
C18_WitnessNoneResolves ==
    /\ last.run = "updateDecision_stopped"
    /\ Len(last.task.related) = 2
    /\ last.task.related[1].id < 0
    /\ last.task.relatedDecisionsForUpdate = <<>>
    /\ last.task.posted[1].ok

\* The ids of the decisions of a list.
ids(decisions) == {decisions[p].id : p \in 1..Len(decisions)}

\* The calls of notionService.updateDecision a handler has made.
updateCalls(t) == SelectSeq(t.calls, LAMBDA c : c.op = "updateDecision")

\* The handler has called analyzeDecisionUpdate.
analyzed(t) == \E c \in 1..Len(t.calls) : t.calls[c].op = "analyzeDecisionUpdate"

\* C19: updateDecision (the workflow) calls notionService.updateDecision
\* only with the id of a decision it gave to analyzeDecisionUpdate, which is
\* the id of a record of the list read by this request; when the model
\* answers with an id that is none of them, the error is posted and
\* notionService.updateDecision is not called.
C19_UpdateTargetsACandidate ==
    \A t \in Handlers :
       t.actionType = "update" =>
          /\ \A c \in 1..Len(updateCalls(t)) :
                /\ updateCalls(t)[c].id \in ids(t.relatedDecisionsForUpdate)
                /\ updateCalls(t)[c].id \in ids(t.existingDecisions)
          /\ (analyzed(t) /\ ~t.updateAnswer.failed
              /\ t.updateAnswer.decision_id \notin ids(t.relatedDecisionsForUpdate)) =>
                /\ t = last.task
                /\ last.run = "updateDecision_stopped"
                /\ t.posted[1].message = Message("Failed to analyze decision update:",
                                                 <<2, t.updateAnswer.decision_id>>)
                /\ updateCalls(t) = <<>>

\* Two decisions were given to analyzeDecisionUpdate and
\* notionService.updateDecision is called with the id of the second.
C19_Witness ==
    \E i \in Tasks :
       /\ task[i].pc = "updateDecision:updateDecision"
       /\ Len(task[i].relatedDecisionsForUpdate) = 2
       /\ updateCalls(task[i]) # <<>>
       /\ updateCalls(task[i])[1].id = task[i].relatedDecisionsForUpdate[2].id

\* The model answered with an id that was not given to it: the error was
\* posted.
C19_WitnessOutside ==
    /\ last.run = "updateDecision_stopped"
    /\ last.task.updateAnalysis.error = <<2, 199>>
    /\ last.task.updateAnswer.confidence >= UpdateThreshold
    /\ last.task.posted[1].ok

\* The handler is in updateDecision, past the list of the decisions.
listed(t) ==
    /\ t.actionType = "update"
    /\ \/ t.pc = "updateDecision:updateDecision"
       \/ t = last.task /\ last.run \in WorkflowRuns["update"]

\* The message of updateDecision for a list without decisions, for no
\* related decision, and for the error analyzeDecisionUpdate reports for the
\* answer of the model; NoMessage when there is nothing of it.
earlyExit(t) ==
    IF t.existingDecisions = <<>>
    THEN Message("No decisions found in the database to update.", <<>>)
    ELSE IF t.related = <<>>
    THEN Message("No related decisions found to update.", <<>>)
    ELSE IF ~analyzed(t) THEN NoMessage
    ELSE IF t.updateAnswer.failed
    THEN Message("Failed to analyze decision update:", <<4>>)
    ELSE IF t.updateAnswer.decision_id \notin ids(t.relatedDecisionsForUpdate)
    THEN Message("Failed to analyze decision update:", <<2, t.updateAnswer.decision_id>>)
    ELSE IF t.updateAnswer.confidence < UpdateThreshold
    THEN Message("Failed to analyze decision update:", <<3, t.updateAnswer.confidence>>)
    ELSE NoMessage

\* C20: updateDecision ends with one message and without a call of
\* notionService.updateDecision when the list is empty, when no decision is
\* related, and when analyzeDecisionUpdate reports an error (the call failed,
\* an id that was not given, a confidence below 60): the message then
\* carries the error text of analyzeDecisionUpdate as it was returned.
C20_EarlyExitsStoreNothing ==
    \A t \in Handlers :
       (listed(t) /\ earlyExit(t) # NoMessage) =>
          /\ t = last.task
          /\ last.run = "updateDecision_stopped"
          /\ t.posted[1].message = earlyExit(t)
          /\ analyzed(t) => t.posted[1].message.args = t.updateAnalysis.error
          /\ t.posted[1].ok => Len(t.posted) = 1
          /\ updateCalls(t) = <<>>
          /\ mutationCalls(t) = <<>>

\* The model answered with a confidence of 59: the error of
\* analyzeDecisionUpdate was posted and the update was not made.
C20_Witness ==
    /\ last.run = "updateDecision_stopped"
    /\ last.task.updateAnswer.confidence = UpdateThreshold - 1
    /\ last.task.updateAnswer.decision_id \in ids(last.task.relatedDecisionsForUpdate)
    /\ last.task.posted = <<[message |-> Message("Failed to analyze decision update:",
                                                 <<3, UpdateThreshold - 1>>),
                             ok |-> TRUE]>>

\* C21: the data updateDecision (the workflow) sends to
\* notionService.updateDecision names the title, the summary and the tag
\* exactly when the answer to analyzeDecisionUpdate gave them, with the value
\* it gave, and always names the thread, the channel and the date; the
\* update changes no title, summary or tag the answer did not give, and no
\* other page.
C21_OnlyReturnedFieldsWritten ==
    /\ [](\A t \in Handlers :
            updateCalls(t) # <<>> /\ t.actionType = "update" =>
               /\ t.updateData.title = t.updateAnswer.fields[1]
               /\ t.updateData.summary = t.updateAnswer.fields[2]
               /\ t.updateData.tag = t.updateAnswer.fields[3]
               /\ t.updateData.slack_thread = threadUrl
               /\ t.updateData.slack_channel = channelName
               /\ t.updateData.date_timestamp = dateTimestamp)
    /\ [][last'.run = "updateDecision_updated" =>
             /\ Len(pages') = Len(pages)
             /\ \A p \in 1..Len(pages) :
                   LET given == last'.task.updateAnswer.fields
                       target == pages[p].id = updateCalls(last'.task)[1].id
                   IN  /\ pages'[p].id = pages[p].id
                       /\ pages'[p].title \in
                             (IF target /\ given[1] # 0 THEN {given[1]} ELSE {}) \cup {pages[p].title}
                       /\ pages'[p].summary \in
                             (IF target /\ given[2] # 0 THEN {given[2]} ELSE {}) \cup {pages[p].summary}
                       /\ pages'[p].tag \in
                             (IF target /\ given[3] # 0 THEN {given[3]} ELSE {}) \cup {pages[p].tag}]_vars

\* An update that was given a title only has changed the title of the page
\* and left its summary and its tag.
C21_Witness ==
    /\ last.run = "updateDecision_updated"
    /\ last.task.updateAnswer.fields = <<Updated.title, 0, 0>>
    /\ \E p \in 1..Len(pages) :
          /\ pages[p].id = updateCalls(last.task)[1].id
          /\ pages[p].title = Updated.title
          /\ pages[p].summary = Record(p).summary
          /\ pages[p].tag = Record(p).tag

\* The last run ended a read or a summary.
EndedReadOrSummary(l) == l.run \in WorkflowRuns["read"] \cup WorkflowRuns["summary"]

\* C22: fetchRelatedDecisions and summarizeThreadResult call no method that
\* changes the database and change neither the database nor the map;
\* summarizeThreadResult calls no method of the store at all; each posts one
\* message (a second one only from its catch, after Slack rejected the
\* first); when the answer of the Summarizer gives a confidence below 30 the
\* message is the error of the Summarizer.
C22_ReadAndSummaryMutateNothing ==
    /\ [](EndedReadOrSummary(last) =>
            /\ mutationCalls(last.task) = <<>>
            /\ last.mapWrite = "none"
            /\ last.task.actionType = "summary" =>
                  /\ storeCalls(last.task) = <<>>
                  /\ Len(last.task.calls) = 1
            /\ Len(last.task.posted) \in {1, 2}
            /\ last.task.posted[1].ok => Len(last.task.posted) = 1
            /\ (last.task.actionType = "summary"
                /\ last.task.confidence \in 0..(SummaryThreshold - 1)) =>
                  last.task.posted[1].message
                     = Message("Failed to generate thread summary:", <<1>>))
    /\ [][EndedReadOrSummary(last') =>
             (pages' = pages /\ nextPage' = nextPage /\ pendingDeletions' = pendingDeletions)]_vars

\* A summary of confidence 29 has ended with the error of the Summarizer as
\* its only message, in a database that holds decisions.
C22_Witness ==
    /\ last.run = "summarizeThreadResult"
    /\ last.task.confidence = SummaryThreshold - 1
    /\ last.task.posted = <<[message |-> Message("Failed to generate thread summary:", <<1>>),
                             ok |-> TRUE]>>
    /\ Len(pages) > 0

\* A read has ended with the decisions related to the thread.
C22_WitnessRead ==
    /\ last.run = "fetchRelatedDecisions_related"
    /\ Len(last.task.related) = 2
    /\ last.task.posted[1].ok

\* C23: a create whose call of compareDecisionWithExisting failed (the
\* request failed or the answer was malformed) does not go on as if the
\* model had answered: it calls neither addDecision nor updateDecision and
\* its message is a failure message.
C23_ComparatorFailureIsReported ==
    \A t \in Handlers :
       (compared(t) /\ t.comparison.reason = "Error occurred during comparison") =>
          /\ mutationCalls(t) = <<>>
          /\ t.posted # <<>> =>
                t.posted[1].message.template \notin {"Decision added:", "Decision updated:"}

\* C24: a create whose getAllDecisions failed (it was given an empty list
\* while the database holds decisions) does not take the list for that of an
\* empty database: it calls neither addDecision nor updateDecision.
C24_ListFailureIsNotAnEmptyList ==
    \A i \in Tasks :
       (task[i].pc = "createNewDecision:store"
        /\ task[i].existingDecisions = <<>> /\ pages # <<>>) =>
          mutationCalls(task[i]) = <<>>

\* The text without its whitespace.
nonWhitespace(s) == SelectSeq(s, LAMBDA ch : ch \notin Whitespace)

\* s begins with prefix.
startsWith(s, prefix) == Len(prefix) <= Len(s) /\ SubSeq(s, 1, Len(prefix)) = prefix

\* The title is the first line or sentence of the text that is not empty,
\* cut to 80 characters: it is at most 80 characters of the text, without a
\* line end or a full stop, that follow whitespace, line ends and full stops
\* only, begin with none of them and, when fewer than 80, go up to the end
\* of the line or sentence but for spaces.
isFirstSentence(title, text) ==
    /\ Len(title) \in 1..TitleLimit
    /\ \A p \in 1..Len(title) : title[p] \notin Separators
    /\ title[1] \notin Whitespace
    /\ \E from \in 1..Len(text) :
          LET to == from + Len(title) - 1
              rest == {q \in (to + 1)..Len(text) : text[q] \notin Whitespace \ Separators}
          IN  /\ to <= Len(text)
              /\ SubSeq(text, from, to) = title
              /\ \A q \in 1..(from - 1) : text[q] \in Whitespace \cup Separators
              /\ Len(title) < TitleLimit =>
                    /\ title[Len(title)] \notin Whitespace
                    /\ rest # {} => text[CHOOSE q \in rest : \A r \in rest : q <= r] \in Separators

\* The summary is the text with its whitespace collapsed, cut to 180
\* characters: it has no line end, no two spaces in a row and no space at
\* either end, and it is the text but for whitespace, or 177 characters that
\* begin the text but for whitespace, and "...".
isCollapsedText(summary, text) ==
    /\ Len(summary) \in 1..SummaryLimit
    /\ \A p \in 1..Len(summary) : summary[p] # "\n"
    /\ \A p \in 1..(Len(summary) - 1) : ~(summary[p] = " " /\ summary[p + 1] = " ")
    /\ summary[1] # " " /\ summary[Len(summary)] # " "
    /\ \/ /\ nonWhitespace(summary) = nonWhitespace(text)
          /\ Len(summary) <= SummaryLimit
       \/ /\ Len(summary) = SummaryLimit
          /\ SubSeq(summary, SummaryLimit - 2, SummaryLimit) = Ellipsis
          /\ startsWith(nonWhitespace(text),
                        nonWhitespace(SubSeq(summary, 1, SummaryLimit - 3)))
          /\ Len(nonWhitespace(text)) > Len(nonWhitespace(SubSeq(summary, 1, SummaryLimit - 3)))

\* The text has a character that is neither whitespace nor, for a title, a
\* line end or a full stop.
hasContent(text, blanks) == \E p \in 1..Len(text) : text[p] \notin blanks

\* The fallback candidate is that of the text.
isFallbackOf(text) ==
    /\ hasContent(text, Whitespace \cup Separators) =>
          isFirstSentence(extractTitleFallback(text), text)
    /\ hasContent(text, Whitespace) =>
          isCollapsedText(extractSummaryFallback(text), text)

\* C25: when extractDecisionFromThread gets no answer it can read,
\* createNewDecision posts no failure message: it goes on with the fallback
\* candidate (the first line or sentence of the thread text cut to 80
\* characters, the text with its whitespace collapsed cut to 180 characters,
\* the tag "general"), lists the decisions, compares and calls addDecision
\* or updateDecision with it, once.
C25_FallbackCandidateIsStored ==
    \A t \in Handlers :
       t.actionType = "create" =>
          /\ t.confidence = NoAnswer =>
                /\ t.pc = "createNewDecision:getAllDecisions"
                /\ t.candidate = Fallback
                /\ t.posted = <<>>
          /\ t.candidate = Fallback =>
                /\ isFallbackOf(threadText)
                /\ \A p \in 1..Len(t.posted) : t.posted[p].message # ExtractionFailedMessage
                /\ compared(t) =>
                      /\ Len(mutationCalls(t)) = 1
                      /\ t.posted # <<>> =>
                            /\ t.posted[1].message.template
                                  \in CreateTemplates["added"] \cup CreateTemplates["updated"]
                            /\ states(t.posted[1].message, Fallback.title)

\* The extraction failed on a thread of more than 180 characters whose first
\* sentence has more than 80: the fallback candidate was added to the
\* database.
C25_Witness ==
    /\ last.run = "createNewDecision_stored"
    /\ last.task.candidate = Fallback
    /\ Len(first(threadText)) > TitleLimit
    /\ Len(trim(collapse(threadText))) > SummaryLimit
    /\ \E p \in 1..Len(pages) :
          /\ pages[p].title = Fallback.title
          /\ pages[p].summary = Fallback.summary
          /\ pages[p].tag = Fallback.tag

\* The request passes the verification: both headers, a timestamp within
\* five minutes and the signature of the body.
verified(request) == request.timestamp = "fresh" /\ request.signature = "valid"

\* The handler has gone into the core: it has classified the mention or
\* called a capability, the store or chat.postMessage.
inCore(t) ==
    t.pc = "analyzeMessageIntent" \/ t.actionType # "" \/ t.calls # <<>> \/ t.posted # <<>>

\* C26: a handler is in the core only for a request that passes the
\* verification and carries an app_mention, and only after the
\* acknowledgment 200 was sent; a request that does not pass the
\* verification is answered 401, an event of another type 200, and neither
\* leads to a call of a capability, of the store or of chat.postMessage.
C26_VerifiedMentionsOnly ==
    \A t \in Handlers :
       /\ inCore(t) =>
             /\ verified(t.request)
             /\ t.request.kind = "app_mention"
             /\ t.response = "200"
       /\ (t.request # NoRequest /\ t.request.kind # "url_verification"
           /\ ~verified(t.request)) =>
             /\ t.response = "401 bad sig"
             /\ ~inCore(t)
       /\ (verified(t.request) /\ t.request.kind = "message") =>
             /\ t.response = "200"
             /\ ~inCore(t)

\* C26 but for the answer 401: a handler is in the core only for a verified
\* app_mention that was acknowledged, and no other request leads to a call.
C26_CoreOnlyAfterAcknowledgment ==
    /\ [](\A t \in Handlers :
            /\ inCore(t) =>
                  /\ verified(t.request)
                  /\ t.request.kind = "app_mention"
                  /\ t.response = "200"
            /\ (t.request # NoRequest
                /\ ~(verified(t.request) /\ t.request.kind = "app_mention")) => ~inCore(t))
    /\ [][last'.run = "handleEvents_returned" =>
             (pages' = pages /\ pendingDeletions' = pendingDeletions)]_vars

\* C27: the entry of a key, once stored, changes in one way only: a mention
\* of that key confirms or cancels it and the entry is removed.  No other
\* run, and no run of a mention of another key, removes or alters it.
C27_OpenEntryPersists ==
    [][\A k \in Keys :
          (pendingDeletions[k] # NoEntry /\ pendingDeletions'[k] # pendingDeletions[k])
          => /\ pendingDeletions'[k] = NoEntry
             /\ last'.run \in {"deleteDecision_deleted", "deleteDecision_cancel"}
             /\ keyOf(last'.task) = k
             /\ last'.task.pendingDeletion = pendingDeletions[k]]_vars

\* C27 for the other keys: the entry of a key changes only in a run of a
\* mention of that key.
C27_OtherKeysLeaveEntry ==
    [][\A k \in Keys :
          (pendingDeletions[k] # NoEntry /\ pendingDeletions'[k] # pendingDeletions[k])
          => (last'.run # "" /\ keyOf(last'.task) = k)]_vars

\* The delete request that ended last went through findRelatedDecisions.
EndedSearch == last.run = "deleteDecision_related"

\* C28: the entry a delete request stores holds the id, the title and the
\* summary of the record at the returned position of the list that request
\* read, never the position itself; every entry of the map is of a record
\* of the store; and a single returned position the list does not hold
\* stores no entry.
C28_EntryIsTheResolvedRecord ==
    /\ \A k \in Keys :
          pendingDeletions[k] # NoEntry =>
             \E n \in 1..MaxRecords :
                /\ pendingDeletions[k].decision_id = Record(n).id
                /\ pendingDeletions[k].title = Record(n).title
                /\ pendingDeletions[k].summary = Record(n).summary
    /\ EndedSearch =>
          LET t == last.task
              ordinal == t.related[1].id
          IN
          /\ last.mapWrite = "set" =>
                /\ Len(t.related) = 1
                /\ ordinal \in 1..Len(t.existingDecisions)
                /\ pendingDeletions[keyOf(t)].decision_id = t.existingDecisions[ordinal].id
                /\ pendingDeletions[keyOf(t)].title = t.existingDecisions[ordinal].title
                /\ pendingDeletions[keyOf(t)].summary = t.existingDecisions[ordinal].summary
                /\ pendingDeletions[keyOf(t)].decision_id # ordinal
          /\ (Len(t.related) = 1 /\ ordinal \notin 1..Len(t.existingDecisions)) =>
                /\ last.mapWrite = "none"
                /\ pendingDeletions[keyOf(t)] = last.entryBefore

\* A delete request stored the entry of the second record of the two it
\* read, while another request is in flight.
C28_Witness ==
    /\ EndedSearch
    /\ last.mapWrite = "set"
    /\ Len(last.task.existingDecisions) = 2
    /\ last.task.related[1].id = 2
    /\ pendingDeletions[keyOf(last.task)].decision_id = Record(2).id
    /\ \E i \in Tasks : task[i].pc # "idle"

\* A delete request got a single position its list does not hold and stored
\* nothing.
C28_WitnessUnresolved ==
    /\ EndedSearch
    /\ Len(last.task.related) = 1
    /\ last.task.related[1].id \notin 1..Len(last.task.existingDecisions)
    /\ pendingDeletions[keyOf(last.task)] = NoEntry

\* The text an opaque title stands for when the thread has the given text
\* and the language model, asked for a title, answers with the text of the
\* thread: extractDecisionFromThread cuts its answer (or "Decision") to 80
\* characters, its catch returns extractTitleFallback(threadText), and
\* updateDecision sends updateAnalysis.updated_title as the model wrote it.
\* The title of a record stored before is not looked at.
titleText(title, text) ==
    IF title = Extraction.title
    THEN slice(IF text = <<>> THEN <<"D", "e", "c", "i", "s", "i", "o", "n">> ELSE text,
               TitleLimit)
    ELSE IF title = Fallback.title THEN extractTitleFallback(text)
    ELSE IF title = Updated.title THEN text
    ELSE <<>>

\* C29: every title a workflow wrote to the store, in a create, in the
\* update of the similar decision or in the update workflow, has at most 80
\* characters.
C29_WrittenTitlesWithinLimit ==
    \A p \in 1..Len(pages) :
       pages[p].title \in {Extraction.title, Fallback.title, Updated.title}
       => Len(titleText(pages[p].title, threadText)) <= TitleLimit

\* C29 for the create workflow alone: the title of an added decision and of
\* the update of the similar decision has at most 80 characters.
C29_CreatedTitlesWithinLimit ==
    \A p \in 1..Len(pages) :
       pages[p].title \in {Extraction.title, Fallback.title}
       => Len(titleText(pages[p].title, threadText)) <= TitleLimit

\* C30: a value of the wrong type in the answer of a capability is never
\* used by a workflow: no handler holds a comparison whose
\* existing_decision_id is no string, and none calls the store with such an
\* id.
C30_WrongTypedValueNeverUsed ==
    \A t \in Handlers :
       /\ t.comparison.existing_decision_id # NumberId
       /\ \A c \in 1..Len(t.calls) : t.calls[c].id # NumberId

\* C30 for the fields compareDecisionWithExisting does validate: an answer
\* whose `similar` or `similarity_score` has the wrong type comes back as
\* the not-similar result of the catch, and the decision is added.
C30_ValidatedFieldsFail ==
    \A t \in Handlers :
       t.comparison.reason = "Error occurred during comparison"
       => /\ ~t.comparison.similar
          /\ t.comparison.existing_decision_id = 0
          /\ updateCalls(t) = <<>>

\* C31: a handler of the delete workflow that found an entry for its key
\* and whose mention contains no, cancel or abort never calls
\* notionService.deleteDecision, whatever else the mention contains; when it
\* has ended, the key holds no entry and the database is as it was.
C31_NegativeReplyNeverDeletes ==
    /\ [](\A t \in Handlers :
            (t.pendingDeletion # NoEntry /\ hasToken(t.eventText, NegativeTokens))
            => deleteCalls(t) = <<>>)
    /\ [][(/\ last'.run # ""
           /\ last'.task.pendingDeletion # NoEntry
           /\ hasToken(last'.task.eventText, NegativeTokens))
          => (pages' = pages /\ pendingDeletions'[keyOf(last'.task)] = NoEntry)]_vars

\* C31 for the replies without an affirmative token: a reply with a negative
\* token and none of yes, confirm, delete clears the entry without a call of
\* notionService.deleteDecision.
C31_PlainNegativeReplyCancels ==
    /\ [](\A t \in Handlers :
            (/\ t.pendingDeletion # NoEntry
             /\ hasToken(t.eventText, NegativeTokens)
             /\ ~hasToken(t.eventText, AffirmativeTokens))
            => deleteCalls(t) = <<>>)
    /\ [][(/\ last'.run # ""
           /\ last'.task.pendingDeletion # NoEntry
           /\ hasToken(last'.task.eventText, NegativeTokens)
           /\ ~hasToken(last'.task.eventText, AffirmativeTokens))
          => (pages' = pages /\ pendingDeletions'[keyOf(last'.task)] = NoEntry)]_vars

\* C32: when every mention delivered is the original request again, a
\* delivery that finds the entry an earlier delivery opened does not call
\* notionService.deleteDecision and leaves the database as it is.
C32_RedeliveryNeverDeletes ==
    /\ [](\A t \in Handlers :
            (t.pendingDeletion # NoEntry /\ t.eventText = threadText)
            => deleteCalls(t) = <<>>)
    /\ [][pages' = pages]_vars

\* C32 for a mention without an affirmative token (`remove it`, `no`): its
\* second delivery is answered with the reminder or the cancellation and
\* deletes nothing.
C32_RedeliveryWithoutTokenKeeps ==
    ~hasToken(threadText, AffirmativeTokens) =>
       \A t \in Handlers :
          (t.pendingDeletion # NoEntry /\ t.eventText = threadText)
          => /\ deleteCalls(t) = <<>>
             /\ \A p \in 1..Len(t.posted) :
                   t.posted[p].message \in {ReminderMessage(t.pendingDeletion),
                                            CancelledMessage(t.pendingDeletion),
                                            DeleteErrorMessage}

\* The last run ended the handling of a confirmation: the handler had called
\* notionService.deleteDecision for the entry of its key.
EndedConfirmation == last.run # "" /\ deleteCalls(last.task) # <<>>

\* The deletion-success and the deletion-failure messages of a confirmation.
DeletionMessages(pendingDeletion) ==
    {DeleteResultMessage(TRUE, pendingDeletion), DeleteResultMessage(FALSE, pendingDeletion),
     DeleteErrorMessage}

\* C33: when the handling of a confirmation has ended, whether
\* notionService.deleteDecision succeeded, returned a failure or threw, the
\* key holds no entry and the one message Slack accepted from the handler is
\* a deletion-success or a deletion-failure message.
C33_ConfirmationClearsEntry ==
    (EndedConfirmation /\ last.task.pc = "done") =>
       /\ pendingDeletions[keyOf(last.task)] = NoEntry
       /\ Len(acceptedPosts(last.task)) = 1
       /\ acceptedPosts(last.task)[1].message \in DeletionMessages(last.task.pendingDeletion)

\* C33 for a store delete that returns, with success or with a failure: the
\* key holds no entry afterwards and one deletion message was accepted.
C33_ReturnedDeleteClearsEntry ==
    (EndedConfirmation /\ last.task.pc = "done" /\ last.run = "deleteDecision_deleted") =>
       /\ pendingDeletions[keyOf(last.task)] = NoEntry
       /\ Len(acceptedPosts(last.task)) = 1
       /\ acceptedPosts(last.task)[1].message \in DeletionMessages(last.task.pendingDeletion)

\* C34: the cancellation message, which says the decision was not deleted,
\* is never posted for an entry for which another handler in flight has
\* called notionService.deleteDecision.
C34_CancelledEntryIsNotDeleted ==
    (last.run = "deleteDecision_cancel" /\ acceptedPosts(last.task) # <<>>) =>
       \A i \in Tasks :
          deleteCalls(task[i]) # <<>> =>
             deleteCalls(task[i])[1].entry # last.task.pendingDeletion

\* C35: a run of a handler leaves the entry of every key but its own as it
\* is, and the runs of the create, update, read and summary workflows and of
\* the none_applicable case leave every entry as it is.  (The runs that do
\* not end the handler change no entry at all.)
C35_OtherKeysAndWorkflowsKeepEntries ==
    [][/\ last'.run = "" => pendingDeletions' = pendingDeletions
       /\ last'.run # "" =>
             /\ \A k \in Keys \ {keyOf(last'.task)} :
                   pendingDeletions'[k] = pendingDeletions[k]
             /\ last'.task.actionType # "delete" => pendingDeletions' = pendingDeletions
             /\ last'.run \notin WorkflowRuns["delete"] => pendingDeletions' = pendingDeletions]_vars

\* A create in one thread has added a decision while the key of the other
\* thread holds an entry, which is still there.
C35_Witness ==
    /\ last.run = "createNewDecision_stored"
    /\ Len(mutationCalls(last.task)) = 1
    /\ \E k \in Keys \ {keyOf(last.task)} : pendingDeletions[k] # NoEntry

\* C36: every call of notionService.updateDecision made by the create
\* workflow is given the id of a decision of the list that request read.
C36_MergeTargetsAListedDecision ==
    \A t \in Handlers :
       t.actionType = "create" =>
          \A c \in 1..Len(updateCalls(t)) : updateCalls(t)[c].id \in ids(t.existingDecisions)

\* C36 for the verdicts that name a listed decision: the update of the
\* similar decision is then called with that id.
C36_ListedMatchIsUpdated ==
    \A t \in Handlers :
       (/\ t.actionType = "create"
        /\ updateCalls(t) # <<>>
        /\ t.comparison.existing_decision_id \in ids(t.existingDecisions))
       => /\ Len(updateCalls(t)) = 1
          /\ updateCalls(t)[1].id = t.comparison.existing_decision_id

\* C37: when the call of the classifier fails or its answer is no label of
\* the enum, the mention is handled as none_applicable: no capability and no
\* store method is called, the run changes neither the database nor the map
\* of pending deletions, and the one post is the clarification.
C37_FailedClassificationClarifies ==
    /\ [](\A t \in Handlers :
            t.action \in OtherAnswers \ ActionType =>
               /\ t.actionType = "none_applicable"
               /\ t.calls = <<>>
               /\ Len(t.posted) = 1
               /\ t.posted[1].message = ClarificationMessage)
    /\ [][last'.task.action \in OtherAnswers \ ActionType =>
             (pendingDeletions' = pendingDeletions /\ pages' = pages)]_vars

\* A mention whose classification failed was answered with the
\* clarification while its key holds an entry, which is still there.
C37_Witness ==
    /\ last.run = "noneApplicable"
    /\ last.task.action = Unreadable
    /\ last.task.posted = <<[message |-> ClarificationMessage, ok |-> TRUE]>>
    /\ pendingDeletions[keyOf(last.task)] # NoEntry

\* A mention the classifier answered with a label outside the enum was
\* answered with the clarification.
C37_WitnessLabel ==
    /\ last.run = "noneApplicable"
    /\ last.task.action = "archive"
    /\ last.task.actionType = "none_applicable"

\* The calls of notionService.addDecision a handler has made.
addCalls(t) == SelectSeq(t.calls, LAMBDA c : c.op = "addDecision")

\* C38: of two create requests of one thread that are in flight together,
\* at most one calls notionService.addDecision: the decision of the thread
\* is never added twice.
C38_OneCreatePerDecision ==
    \A i, j \in Tasks :
       (/\ i # j
        /\ keyOf(task[i]) = keyOf(task[j])
        /\ task[i].eventText = task[j].eventText
        /\ addCalls(task[i]) # <<>>)
       => addCalls(task[j]) = <<>>

\* C38 for requests handled one after the other, when the comparator finds
\* the decision the first request added: the second request updates it and
\* adds nothing.
C38_LaterRequestMerges ==
    \A t \in Handlers :
       (/\ t.actionType = "create"
        /\ t.comparison.similar
        /\ t.comparison.existing_decision_id \in ids(t.existingDecisions))
       => (addCalls(t) = <<>> /\ Len(updateCalls(t)) = 1)

\* C39: a mention that is the word `yes` and the bot mention, the mention
\* before the word or after it, is read as a confirmation: what the token
\* inspection looks at contains `yes`, and the delete workflow, finding an
\* entry for the key, calls notionService.deleteDecision.
C39_YesIsSeenAroundTheMention ==
    \A t \in Handlers :
       t.eventText \in {TextYes, TextYesMentionLast} =>
          /\ includes(messageText(t.eventText), TokenYes)
          /\ (t.actionType = "delete" /\ t.pendingDeletion # NoEntry) =>
                Len(deleteCalls(t)) = 1

\* C39 for the mention that stands first: `<@B> yes` is read as a
\* confirmation.
C39_YesAfterTheMention ==
    \A t \in Handlers :
       t.eventText = TextYes =>
          /\ includes(messageText(t.eventText), TokenYes)
          /\ (t.actionType = "delete" /\ t.pendingDeletion # NoEntry) =>
                Len(deleteCalls(t)) = 1

\* C40: for every request that does not pass the verification (a header is
\* missing, the timestamp is old, the signature is another one, of the same
\* length or not), verify returns false and does not throw.
C40_VerifyReturnsFalse ==
    \A t \in Handlers :
       (t.request # NoRequest /\ ~verified(t.request)) => verify(t.request) = "false"

\* C40 but for the signatures of another length: verify returns false when
\* a header is missing, the timestamp is old or the signature differs in
\* content only.
C40_SameLengthSignatureIsRefused ==
    \A t \in Handlers :
       (t.request # NoRequest /\ ~verified(t.request) /\ t.request.signature # "short")
       => verify(t.request) = "false"

====
